---- MODULE Spec2Model ----
(***************************************************************************)
(* HPACK (RFC 7541) Huffman codec of h2v: the codebook, the table          *)
(* generator's trie and finite-state tables, the two encoders              *)
(* (FastEncode, FastEncodeFlatmap) and the two decoders (FastDecode over   *)
(* the nibble tables, HuffmanCodec::Decode over the full-byte tables).     *)
(***************************************************************************)
EXTENDS Integers, Sequences, FiniteSets, TLC

(***************************************************************************)
(* RFC 7541 Appendix B codebook: CODE[sym + 1], LEN[sym + 1], sym 0..256.  *)
(***************************************************************************)
CODE ==
  <<
    8184, 8388568, 268435426, 268435427, 268435428, 268435429, 268435430, 268435431,
    268435432, 16777194, 1073741820, 268435433, 268435434, 1073741821, 268435435, 268435436,
    268435437, 268435438, 268435439, 268435440, 268435441, 268435442, 1073741822, 268435443,
    268435444, 268435445, 268435446, 268435447, 268435448, 268435449, 268435450, 268435451,
    20, 1016, 1017, 4090, 8185, 21, 248, 2042,
    1018, 1019, 249, 2043, 250, 22, 23, 24,
    0, 1, 2, 25, 26, 27, 28, 29,
    30, 31, 92, 251, 32764, 32, 4091, 1020,
    8186, 33, 93, 94, 95, 96, 97, 98,
    99, 100, 101, 102, 103, 104, 105, 106,
    107, 108, 109, 110, 111, 112, 113, 114,
    252, 115, 253, 8187, 524272, 8188, 16380, 34,
    32765, 3, 35, 4, 36, 5, 37, 38,
    39, 6, 116, 117, 40, 41, 42, 7,
    43, 118, 44, 8, 9, 45, 119, 120,
    121, 122, 123, 32766, 2044, 16381, 8189, 268435452,
    1048550, 4194258, 1048551, 1048552, 4194259, 4194260, 4194261, 8388569,
    4194262, 8388570, 8388571, 8388572, 8388573, 8388574, 16777195, 8388575,
    16777196, 16777197, 4194263, 8388576, 16777198, 8388577, 8388578, 8388579,
    8388580, 2097116, 4194264, 8388581, 4194265, 8388582, 8388583, 16777199,
    4194266, 2097117, 1048553, 4194267, 4194268, 8388584, 8388585, 2097118,
    8388586, 4194269, 4194270, 16777200, 2097119, 4194271, 8388587, 8388588,
    2097120, 2097121, 4194272, 2097122, 8388589, 4194273, 8388590, 8388591,
    1048554, 4194274, 4194275, 4194276, 8388592, 4194277, 4194278, 8388593,
    67108832, 67108833, 1048555, 524273, 4194279, 8388594, 4194280, 33554412,
    67108834, 67108835, 67108836, 134217694, 134217695, 67108837, 16777201, 33554413,
    524274, 2097123, 67108838, 134217696, 134217697, 67108839, 134217698, 16777202,
    2097124, 2097125, 67108840, 67108841, 268435453, 134217699, 134217700, 134217701,
    1048556, 16777203, 1048557, 2097126, 4194281, 2097127, 2097128, 8388595,
    4194282, 4194283, 33554414, 33554415, 16777204, 16777205, 67108842, 8388596,
    67108843, 134217702, 67108844, 67108845, 134217703, 134217704, 134217705, 134217706,
    134217707, 268435454, 134217708, 134217709, 134217710, 134217711, 134217712, 67108846,
    1073741823
  >>

LEN ==
  <<
    13, 23, 28, 28, 28, 28, 28, 28, 28, 24, 30, 28, 28, 30, 28, 28, 28, 28, 28,
    28, 28, 28, 30, 28, 28, 28, 28, 28, 28, 28, 28, 28, 6, 10, 10, 12, 13, 6,
    8, 11, 10, 10, 8, 11, 8, 6, 6, 6, 5, 5, 5, 6, 6, 6, 6, 6, 6,
    6, 7, 8, 15, 6, 12, 10, 13, 6, 7, 7, 7, 7, 7, 7, 7, 7, 7, 7,
    7, 7, 7, 7, 7, 7, 7, 7, 7, 7, 7, 7, 8, 7, 8, 13, 19, 13, 14,
    6, 15, 5, 6, 5, 6, 5, 6, 6, 6, 5, 7, 7, 6, 6, 6, 5, 6, 7,
    6, 5, 5, 6, 7, 7, 7, 7, 7, 15, 11, 14, 13, 28, 20, 22, 20, 20, 22,
    22, 22, 23, 22, 23, 23, 23, 23, 23, 24, 23, 24, 24, 22, 23, 24, 23, 23, 23,
    23, 21, 22, 23, 22, 23, 23, 24, 22, 21, 20, 22, 22, 23, 23, 21, 23, 22, 22,
    24, 21, 22, 23, 23, 21, 21, 22, 21, 23, 22, 23, 23, 20, 22, 22, 22, 23, 22,
    22, 23, 26, 26, 20, 19, 22, 23, 22, 25, 26, 26, 26, 27, 27, 26, 24, 25, 19,
    21, 26, 27, 27, 26, 27, 24, 21, 21, 26, 26, 28, 27, 27, 27, 20, 24, 20, 21,
    22, 21, 21, 23, 22, 22, 25, 25, 24, 24, 26, 23, 26, 27, 26, 26, 27, 27, 27,
    27, 27, 28, 27, 27, 27, 27, 27, 26, 30
  >>

NSYM == 257

EOS == 256

(***************************************************************************)
(* The generator's trie.  The arena holds the Node objects in order of     *)
(* allocation; a child of 0 is the null pointer; root is arena entry 1.    *)
(***************************************************************************)
Node == [child |-> <<0, 0>>, symbol |-> -1]

root == 1

Pow2(k) == 2 ^ k

\* Only({ e(v) : v \in {x} }) is e(x) with x evaluated once and bound to v.
Only(S) == CHOOSE v \in S : TRUE

BitAt(code, i) == (code \div Pow2(i)) % 2

\* the loop over the bits of a code stopping at i > 0: the last bit is left out
RECURSIVE InsertCodeStopsShort(_, _, _, _, _)
InsertCodeStopsShort(arena, n, code, i, sym) ==
  IF i < 1 THEN [arena EXCEPT ![n].symbol = sym]
  ELSE LET bit == BitAt(code, i)
           c   == arena[n].child[bit + 1]
       IN  IF c = 0
           THEN InsertCodeStopsShort(Append([arena EXCEPT ![n].child[bit + 1] = Len(arena) + 1], Node),
                                     Len(arena) + 1, code, i - 1, sym)
           ELSE InsertCodeStopsShort(arena, c, code, i - 1, sym)

RECURSIVE InsertCode(_, _, _, _, _)
InsertCode(arena, n, code, i, sym) ==
  IF i < 0 THEN [arena EXCEPT ![n].symbol = sym]
  ELSE LET bit == BitAt(code, i)
           c   == arena[n].child[bit + 1]
       IN  IF c = 0
           THEN InsertCode(Append([arena EXCEPT ![n].child[bit + 1] = Len(arena) + 1], Node),
                           Len(arena) + 1, code, i - 1, sym)
           ELSE InsertCode(arena, c, code, i - 1, sym)

RECURSIVE BuildTrie(_, _, _)
BuildTrie(arena, lo, hi) ==
  IF lo = hi THEN InsertCode(arena, root, CODE[lo + 1], LEN[lo + 1] - 1, lo)
  ELSE LET mid == (lo + hi) \div 2
           left == BuildTrie(arena, lo, mid)
       IN  IF Len(left) > 0 THEN BuildTrie(left, mid + 1, hi) ELSE left

\* the trie of the 256 octets alone: the loop stops short of EOS
trieWithoutEos == BuildTrie(<<Node>>, 0, NSYM - 2)

trie == BuildTrie(<<Node>>, 0, NSYM - 1)

(***************************************************************************)
(* Breadth-first numbering: nodes[st + 1] is the arena entry of state st.  *)
(***************************************************************************)
InSeq(x, s) == \E k \in 1..Len(s) : s[k] = x

Children(level, seen) ==
  SelectSeq([k \in 1..(2 * Len(level)) |-> trie[level[(k + 1) \div 2]].child[2 - (k % 2)]],
            LAMBDA c : c # 0 /\ ~InSeq(c, seen))

RECURSIVE Bfs(_, _)
Bfs(ns, level) ==
  IF level = <<>> THEN ns
  ELSE LET next == Children(level, ns)
       IN  Bfs(ns \o next, next)

nodes == Bfs(<<root>>, <<root>>)

index == [a \in 1..Len(trie) |-> CHOOSE k \in 0..(Len(nodes) - 1) : nodes[k + 1] = a]

NStates == Len(nodes)


(***************************************************************************)
(* Machine integers.  A uint64_t is the function of its 64 bits, bit i     *)
(* being the one of weight 2^i; a native integer of the model holds only   *)
(* values below 2^31.                                                      *)
(***************************************************************************)
U64(n) == [i \in 0..63 |-> IF i < 31 THEN BitAt(n, i) ELSE 0]

Shl(a, k) == [i \in 0..63 |-> IF i >= k THEN a[i - k] ELSE 0]

Shr(a, k) == [i \in 0..63 |-> IF i + k <= 63 THEN a[i + k] ELSE 0]

Or(a, b) == [i \in 0..63 |-> IF a[i] = 1 \/ b[i] = 1 THEN 1 ELSE 0]

And(a, b) == [i \in 0..63 |-> IF a[i] = 1 /\ b[i] = 1 THEN 1 ELSE 0]

LowMask(k) == [i \in 0..63 |-> IF i < k THEN 1 ELSE 0]

U32(a) == And(a, LowMask(32))

U8(a) == a[0] + 2 * a[1] + 4 * a[2] + 8 * a[3] + 16 * a[4] + 32 * a[5] + 64 * a[6] + 128 * a[7]

(***************************************************************************)
(* HPACK_ERR codes.                                                        *)
(***************************************************************************)
NONE == 0

INPUT_NULL_PTR == 1

OUTPUT_NULL_PTR == 2

BUFFER_TO_SMALL == 5

INVALID_ARGS == 6

HUFFMAN_DECODE_INVALID_PREFIX_NIBBLE == 7

HUFFMAN_DECODE_INVALID_EOS_PADDING_NIBBLE == 9

(***************************************************************************)
(* A call's effect on the caller's memory: the status returned, out_size   *)
(* after the call, the bytes stored at out_ptr[0 ..] in offset order, and  *)
(* whether a store landed at an offset >= the buffer's capacity.           *)
(***************************************************************************)
Effect(status, out_size, mem, cap) ==
  [status |-> status, out_size |-> out_size, mem |-> mem, overrun |-> Len(mem) > cap]

(***************************************************************************)
(* huffman::FastEncode (direct bit operations).                            *)
(***************************************************************************)
\* the flush that waits for 64 pending bits instead of 32
RECURSIVE FastEncodeFlushAt64(_, _, _)
FastEncodeFlushAt64(acc, bits, mem) ==
  IF bits >= 64
  THEN LET word == U32(Shr(acc, bits - 32))
           m2   == mem \o << U8(Shr(word, 24)), U8(Shr(word, 16)), U8(Shr(word, 8)), U8(word) >>
       IN  FastEncodeFlushAt64(And(acc, LowMask(bits - 32)), bits - 32, m2)
  ELSE [acc |-> acc, bits |-> bits, mem |-> mem]

\* the flush that writes four octets but takes only eight bits off the count
RECURSIVE FastEncodeFlushCountsOneOctet(_, _, _)
FastEncodeFlushCountsOneOctet(acc, bits, mem) ==
  IF bits >= 32
  THEN LET word == U32(Shr(acc, bits - 32))
           m2   == mem \o << U8(Shr(word, 24)), U8(Shr(word, 16)), U8(Shr(word, 8)), U8(word) >>
       IN  FastEncodeFlushCountsOneOctet(And(acc, LowMask(bits - 8)), bits - 8, m2)
  ELSE [acc |-> acc, bits |-> bits, mem |-> mem]

RECURSIVE FastEncodeFlush(_, _, _)
FastEncodeFlush(acc, bits, mem) ==
  IF bits >= 32
  THEN LET word == U32(Shr(acc, bits - 32))
           m2   == mem \o << U8(Shr(word, 24)), U8(Shr(word, 16)), U8(Shr(word, 8)), U8(word) >>
       IN  FastEncodeFlush(And(acc, LowMask(bits - 32)), bits - 32, m2)
  ELSE [acc |-> acc, bits |-> bits, mem |-> mem]

RECURSIVE FastEncodeLoop(_, _, _, _, _, _)
FastEncodeLoop(in, in_size, i, acc, bits, mem) ==
  IF i >= in_size THEN [acc |-> acc, bits |-> bits, mem |-> mem]
  ELSE LET sym  == in[i + 1]
           cw   == CODE[sym + 1]
           clen == LEN[sym + 1]
       IN  Only({ FastEncodeLoop(in, in_size, i + 1, f.acc, f.bits, f.mem) :
                  f \in { FastEncodeFlush(Or(Shl(acc, clen), U64(cw)), bits + clen, mem) } })

RECURSIVE FastEncodeTail(_, _, _, _, _)
FastEncodeTail(tmp, bits, pad, s, mem) ==
  IF s < 0 \/ bits + pad <= 0 THEN mem
  ELSE FastEncodeTail(tmp, bits - 8, pad, s - 8, Append(mem, U8(Shr(tmp, s))))

FastEncodePadBits(bits) == 8 - (bits % 8)

\* FastEncode after its checks of in_size, in_ptr and out_ptr
FastEncodeBody(in_ptr, in_size, out_ptr) ==
  Only({
    LET pad == FastEncodePadBits(l.bits)
        tmp == Or(Shl(l.acc, 32 - l.bits), Shl(LowMask(pad), 32 - l.bits - pad))
    IN  Only({ Effect(NONE, Len(mem), mem, out_ptr.capacity) :
               mem \in { IF l.bits > 0 THEN FastEncodeTail(tmp, l.bits, pad, 24, l.mem)
                                        ELSE l.mem } }) :
    l \in { FastEncodeLoop(in_ptr.bytes, in_size, 0, U64(0), 0, <<>>) } })

\* the input octets read as signed char: an octet above 0x7f is refused
FastEncodeSignedOctets(in_ptr, in_size, out_ptr, out_size) ==
  IF in_size = 0 THEN Effect(NONE, 0, <<>>, 0)
  ELSE IF in_ptr.null THEN Effect(INPUT_NULL_PTR, 0, <<>>, 0)
  ELSE IF out_ptr.null THEN Effect(OUTPUT_NULL_PTR, 0, <<>>, 0)
  ELSE IF \E i \in 1..in_size : in_ptr.bytes[i] >= 128 THEN Effect(INVALID_ARGS, 0, <<>>, 0)
  ELSE FastEncodeBody(in_ptr, in_size, out_ptr)

\* the pointers checked before the size
FastEncodeNullCheckedFirst(in_ptr, in_size, out_ptr, out_size) ==
  IF in_ptr.null THEN Effect(INPUT_NULL_PTR, 0, <<>>, 0)
  ELSE IF out_ptr.null THEN Effect(OUTPUT_NULL_PTR, 0, <<>>, 0)
  ELSE IF in_size = 0 THEN Effect(NONE, 0, <<>>, 0)
  ELSE FastEncodeBody(in_ptr, in_size, out_ptr)

FastEncode(in_ptr, in_size, out_ptr, out_size) ==
  IF in_size = 0 THEN Effect(NONE, 0, <<>>, 0)
  ELSE IF in_ptr.null THEN Effect(INPUT_NULL_PTR, 0, <<>>, 0)
  ELSE IF out_ptr.null THEN Effect(OUTPUT_NULL_PTR, 0, <<>>, 0)
  ELSE FastEncodeBody(in_ptr, in_size, out_ptr)

(***************************************************************************)
(* GenerateEncodeTable: kEncodeTable[sym], the code left-aligned in bytes. *)
(***************************************************************************)
\* the code left in the low bits of the 64-bit word instead of the top ones
kEncodeTableNotShifted(sym) ==
  LET code       == CODE[sym + 1]
      length     == LEN[sym + 1]
      bits64     == U64(code)
      byte_count == (length + 7) \div 8
  IN  [bit_length |-> length,
       byte_count |-> byte_count,
       bytes      |-> [b \in 0..4 |-> IF b < byte_count THEN U8(Shr(bits64, 8 * (byte_count - 1 - b))) ELSE 0]]

kEncodeTable(sym) ==
  LET code       == CODE[sym + 1]
      length     == LEN[sym + 1]
      bits64     == Shl(U64(code), 64 - length)
      byte_count == (length + 7) \div 8
  IN  [bit_length |-> length,
       byte_count |-> byte_count,
       bytes      |-> [b \in 0..4 |-> IF b < byte_count THEN U8(Shr(bits64, 56 - 8 * b)) ELSE 0]]

(***************************************************************************)
(* huffman::FastEncodeFlatmap (table driven).                              *)
(***************************************************************************)
RECURSIVE FlatmapPiece(_, _, _, _)
FlatmapPiece(e, b, bcnt, piece) ==
  IF b >= bcnt THEN piece
  ELSE FlatmapPiece(e, b + 1, bcnt, Or(piece, Shl(U64(e.bytes[b]), 56 - 8 * b)))

\* the flush whose mask is one bit short: the highest pending bit is dropped
RECURSIVE FlatmapFlushMaskShort(_, _, _)
FlatmapFlushMaskShort(acc, bits_in_acc, mem) ==
  IF bits_in_acc >= 32
  THEN LET shift == bits_in_acc - 32
           word  == U32(Shr(acc, shift))
           m2    == mem \o << U8(Shr(word, 24)), U8(Shr(word, 16)), U8(Shr(word, 8)), U8(word) >>
           rest  == bits_in_acc - 32
           acc2  == IF rest > 1 THEN And(acc, LowMask(rest - 1)) ELSE U64(0)
       IN  FlatmapFlushMaskShort(acc2, rest, m2)
  ELSE [acc |-> acc, bits |-> bits_in_acc, mem |-> mem]

RECURSIVE FlatmapFlush(_, _, _)
FlatmapFlush(acc, bits_in_acc, mem) ==
  IF bits_in_acc >= 32
  THEN LET shift == bits_in_acc - 32
           word  == U32(Shr(acc, shift))
           m2    == mem \o << U8(Shr(word, 24)), U8(Shr(word, 16)), U8(Shr(word, 8)), U8(word) >>
           rest  == bits_in_acc - 32
           acc2  == IF rest > 0 THEN And(acc, LowMask(rest)) ELSE U64(0)
       IN  FlatmapFlush(acc2, rest, m2)
  ELSE [acc |-> acc, bits |-> bits_in_acc, mem |-> mem]

RECURSIVE FlatmapLoop(_, _, _, _, _, _)
FlatmapLoop(in, in_size, i, acc, bits_in_acc, mem) ==
  IF i >= in_size THEN [acc |-> acc, bits |-> bits_in_acc, mem |-> mem]
  ELSE Only({
         LET clen      == e.bit_length
             bcnt      == e.byte_count
             piece     == FlatmapPiece(e, 0, bcnt, U64(0))
             code_bits == Shr(piece, 64 - clen)
         IN  Only({ FlatmapLoop(in, in_size, i + 1, f.acc, f.bits, f.mem) :
                    f \in { FlatmapFlush(Or(Shl(acc, clen), code_bits), bits_in_acc + clen, mem) } }) :
         e \in { kEncodeTable(in[i + 1]) } })

RECURSIVE FlatmapTail(_, _, _)
FlatmapTail(acc, bits_in_acc, mem) ==
  IF bits_in_acc >= 8
  THEN LET shift == bits_in_acc - 8
           rest  == bits_in_acc - 8
           acc2  == IF rest > 0 THEN And(acc, LowMask(rest)) ELSE U64(0)
       IN  FlatmapTail(acc2, rest, Append(mem, U8(Shr(acc, shift))))
  ELSE mem

\* no padding at all: the last, partial octet is never written
FlatmapPadBitsNone(bits_in_acc) == 0 * bits_in_acc

\* the padding computed without the final mask, as FastEncode computes it
FlatmapPadBitsUnmasked(bits_in_acc) == 8 - (bits_in_acc % 8)

FlatmapPadBits(bits_in_acc) == (8 - (bits_in_acc % 8)) % 8

\* FastEncodeFlatmap after its checks of in_size, in_ptr and out_ptr
FastEncodeFlatmapBody(in_ptr, in_size, out_ptr) ==
  Only({
    LET pad == FlatmapPadBits(l.bits)
        acc == Or(Shl(l.acc, pad), LowMask(pad))
    IN  Only({ Effect(NONE, Len(mem), mem, out_ptr.capacity) :
               mem \in { IF l.bits > 0 THEN FlatmapTail(acc, l.bits + pad, l.mem)
                                        ELSE l.mem } }) :
    l \in { FlatmapLoop(in_ptr.bytes, in_size, 0, U64(0), 0, <<>>) } })

FastEncodeFlatmap(in_ptr, in_size, out_ptr, out_size) ==
  IF in_size = 0 THEN Effect(NONE, 0, <<>>, 0)
  ELSE IF in_ptr.null THEN Effect(INPUT_NULL_PTR, 0, <<>>, 0)
  ELSE IF out_ptr.null THEN Effect(OUTPUT_NULL_PTR, 0, <<>>, 0)
  ELSE FastEncodeFlatmapBody(in_ptr, in_size, out_ptr)


(***************************************************************************)
(* Table generator, full-byte FSM: entry (st, byte) of kByteDecodeTable,   *)
(* emitted in the order st-major, byte-minor, hence at flat position       *)
(* st * 256 + byte.                                                        *)
(***************************************************************************)
RECURSIVE WalkBits(_, _, _, _)
WalkBits(n, unit, i, emits) ==
  IF i < 0 THEN [error |-> FALSE, n |-> n, emits |-> emits]
  ELSE Only({
         IF c = 0 THEN [error |-> TRUE, n |-> 0, emits |-> emits]
         ELSE IF trie[c].symbol >= 0
              THEN WalkBits(root, unit, i - 1, Append(emits, trie[c].symbol))
              ELSE WalkBits(c, unit, i - 1, emits) :
         c \in { trie[n].child[BitAt(unit, i) + 1] } })

EmitOr0(emits, k) == IF Len(emits) >= k THEN emits[k] % 256 ELSE 0

\* emits declared outside the loop over the bytes: the symbols of the byte
\* before are still in it
ByteDecodeEntryKeepsEmits(st, byte) ==
  Only({
    IF w.error
    THEN [next_state |-> 0, emit_count |-> 255, symbols |-> <<0, 0>>]
    ELSE [next_state |-> index[w.n],
          emit_count |-> Len(w.emits),
          symbols    |-> << EmitOr0(w.emits, 1), EmitOr0(w.emits, 2) >>] :
    w \in { WalkBits(nodes[st + 1], byte, 7,
                     IF byte = 0 THEN <<>>
                     ELSE WalkBits(nodes[st + 1], byte - 1, 7, <<>>).emits) } })

ByteDecodeEntry(st, byte) ==
  Only({
    IF w.error
    THEN [next_state |-> 0, emit_count |-> 255, symbols |-> <<0, 0>>]
    ELSE [next_state |-> index[w.n],
          emit_count |-> Len(w.emits),
          symbols    |-> << EmitOr0(w.emits, 1), EmitOr0(w.emits, 2) >>] :
    w \in { WalkBits(nodes[st + 1], byte, 7, <<>>) } })

kByteDecodeTableSize == NStates * 256

kByteDecodeTable(i) == ByteDecodeEntry(i \div 256, i % 256)

(***************************************************************************)
(* Table generator, accepting flags: kAccepting[i].                        *)
(***************************************************************************)
RECURSIVE AcceptingWalk(_, _)
AcceptingWalk(cur, step) ==
  IF step >= 32 THEN FALSE
  ELSE \E next \in { trie[cur].child[2] } :
         IF next = 0 THEN FALSE
         ELSE IF trie[next].symbol >= 0
              THEN IF trie[next].symbol = EOS THEN TRUE ELSE AcceptingWalk(root, step + 1)
              ELSE AcceptingWalk(next, step + 1)

kAccepting(i) == AcceptingWalk(nodes[i + 1], 0)

(***************************************************************************)
(* stateDepth / kStateDepth[i]: the breadth-first walk from the root that  *)
(* gives every child the depth of its parent plus one, in a uint8_t.       *)
(***************************************************************************)
\* the children of the states of level that the walk has not seen, each with
\* the state it is pushed from
Unseen(level, seen) ==
  SelectSeq([k \in 1..(2 * Len(level)) |->
               [from |-> level[(k + 1) \div 2],
                c    |-> trie[nodes[level[(k + 1) \div 2] + 1]].child[2 - (k % 2)]]],
            LAMBDA p : p.c # 0 /\ index[p.c] \notin seen)

RECURSIVE StateDepthBfs(_, _, _)
StateDepthBfs(level, seen, depth) ==
  IF level = <<>> THEN depth
  ELSE LET pushed == Unseen(level, seen)
           ci     == [k \in 1..Len(pushed) |-> index[pushed[k].c]]
           next   == [i \in 0..(NStates - 1) |->
                        IF \E k \in 1..Len(ci) : ci[k] = i
                        THEN (depth[pushed[CHOOSE k \in 1..Len(ci) : ci[k] = i].from] + 1) % 256
                        ELSE depth[i]]
       IN  StateDepthBfs(ci, seen \cup {ci[k] : k \in 1..Len(ci)}, next)

stateDepth == StateDepthBfs(<<0>>, {0}, [i \in 0..(NStates - 1) |-> 0])

kStateDepth(i) == stateDepth[i]

(***************************************************************************)
(* Table generator, bit-level transitions: kBitTable[st][bit].             *)
(***************************************************************************)
BitDecodeEntry(st, bit) ==
  Only({
    IF c = 0 THEN [next_state |-> 65535, emit_count |-> 255]
    ELSE IF trie[c].symbol >= 0
         THEN [next_state |-> 0, emit_count |-> 1]
         ELSE [next_state |-> index[c], emit_count |-> 0] :
    c \in { trie[nodes[st + 1]].child[bit + 1] } })

kBitTable(st, bit) == BitDecodeEntry(st, bit)

(***************************************************************************)
(* RawBuffer::append(n): grows by doubling, returns the old size (the      *)
(* offset of the first appended byte).                                     *)
(***************************************************************************)
RawBufferMax(a, b) == IF a >= b THEN a ELSE b

RawBufferAppend(buf, byte) ==
  [size     |-> buf.size + 1,
   capacity |-> IF buf.size + 1 > buf.capacity
                THEN RawBufferMax(buf.capacity * 2, buf.size + 1) ELSE buf.capacity,
   data     |-> Append(buf.data, byte)]

(***************************************************************************)
(* HuffmanCodec::Encode: codes shifted into bitbuf, the complete octets     *)
(* flushed after every symbol, the last octet padded with the high bits of *)
(* EOS; the octets go to a fresh RawBuffer hbuf, which is moved into out.  *)
(***************************************************************************)
RECURSIVE EncodeFlushBytes(_, _, _, _)
EncodeFlushBytes(bitbuf, rem, i, mem) ==
  IF i < 0 THEN mem
  ELSE EncodeFlushBytes(bitbuf, rem, i - 1, Append(mem, U8(Shr(bitbuf, rem + i * 8))))

EncodeFlush(bitbuf, bitlen, mem) ==
  LET full_bytes == bitlen \div 8
      rem        == bitlen % 8
  IN  IF full_bytes # 0
      THEN [bitbuf |-> IF rem # 0 THEN And(bitbuf, LowMask(rem)) ELSE U64(0),
            bitlen |-> rem,
            mem    |-> EncodeFlushBytes(bitbuf, rem, full_bytes - 1, mem)]
      ELSE [bitbuf |-> bitbuf, bitlen |-> bitlen, mem |-> mem]

RECURSIVE EncodeLoop(_, _, _, _, _)
EncodeLoop(input, k, bitbuf, bitlen, mem) ==
  IF k >= Len(input) THEN [bitbuf |-> bitbuf, bitlen |-> bitlen, mem |-> mem]
  ELSE LET c    == input[k + 1]
           code == CODE[c + 1]
           len  == LEN[c + 1]
       IN  Only({ EncodeLoop(input, k + 1, f.bitbuf, f.bitlen, f.mem) :
                  f \in { EncodeFlush(Or(Shl(bitbuf, len), U64(code)), bitlen + len, mem) } })

\* the last octet: the pending bits followed by the high bits of EOS
EncodePad(bitbuf, bitlen, mem) ==
  IF bitlen > 0
  THEN LET pad      == 8 - bitlen
           pad_bits == Shr(U64(CODE[EOS + 1]), LEN[EOS + 1] - pad)
       IN  Append(mem, U8(Or(Shl(bitbuf, pad), pad_bits)))
  ELSE mem

\* hbuf{alloc, max_bytes}; hbuf.append(used); out = std::move(hbuf); return used
Encode(input, out) ==
  Only({
    [ok    |-> TRUE,
     value |-> Len(mem),
     out   |-> [size |-> Len(mem), capacity |-> (Len(input) * 30 + 7) \div 8, data |-> mem]] :
    mem \in { Only({ EncodePad(l.bitbuf, l.bitlen, l.mem) :
                     l \in { EncodeLoop(input, 0, U64(0), 0, <<>>) } }) } })

(***************************************************************************)
(* HuffmanCodec::Decode (full-byte FSM).                                   *)
(***************************************************************************)
DecodeIndex(state, byte) == state * 257 + byte

RECURSIVE DecodeEmit(_, _, _, _)
DecodeEmit(e, i, out, out_count) ==
  IF i >= e.emit_count THEN [out |-> out, out_count |-> out_count]
  ELSE DecodeEmit(e, i + 1, RawBufferAppend(out, e.symbols[i + 1]), out_count + 1)

RECURSIVE DecodeLoop(_, _, _, _, _)
DecodeLoop(input, ptr, state, out, out_count) ==
  IF ptr >= Len(input) THEN [status |-> "loop_end", state |-> state, out |-> out, out_count |-> out_count]
  ELSE LET byte == input[ptr + 1]
           idx  == DecodeIndex(state, byte)
       IN  IF idx >= kByteDecodeTableSize
           THEN [status |-> "read_out_of_bounds", state |-> state, out |-> out, out_count |-> out_count]
           ELSE Only({
                  IF e.emit_count = 255
                  THEN [status |-> "Huffman invalid code", state |-> state, out |-> out, out_count |-> out_count]
                  ELSE Only({ DecodeLoop(input, ptr + 1, e.next_state, m.out, m.out_count) :
                              m \in { DecodeEmit(e, 0, out, out_count) } }) :
                  e \in { kByteDecodeTable(idx) } })

Decode(input, out) ==
  Only({
    IF l.status # "loop_end"
    THEN [ok |-> FALSE, message |-> l.status, value |-> 0, out |-> l.out]
    ELSE IF ~kAccepting(l.state)
         THEN [ok |-> FALSE, message |-> "Huffman decode incomplete", value |-> 0, out |-> l.out]
         ELSE [ok |-> TRUE, message |-> "", value |-> l.out_count, out |-> l.out] :
    l \in { DecodeLoop(input, 0, 0, out, 0) } })

(***************************************************************************)
(* Nibble tables read by FastDecode: kNibbleDecodeTable (packed words),    *)
(* kBitTableNibble and kAcceptingNibbleBits.                               *)
(* Their generator (v2/fsm_4bit_nibble_gen.h) is not part of this tree;    *)
(* the tables follow the design document: section 3 (packed entry), 4.B    *)
(* steps 5, 6 and 8, and 4.D (a transition through EOS is an error).       *)
(***************************************************************************)
\* a next-state field of eight bits
PackNibbleEightBits(error, next_state, emit_count, s0, s1) ==
  [hi |-> IF error THEN 1 ELSE 0,
   lo |-> IF error THEN 0
          ELSE (next_state % 256) * Pow2(22) + (emit_count % 4) * Pow2(20)
               + (s0 % 256) * Pow2(12) + (s1 % 256) * Pow2(4)]

PackNibble(error, next_state, emit_count, s0, s1) ==
  [hi |-> IF error THEN 1 ELSE 0,
   lo |-> IF error THEN 0
          ELSE (next_state % 512) * Pow2(22) + (emit_count % 4) * Pow2(20)
               + (s0 % 256) * Pow2(12) + (s1 % 256) * Pow2(4)]

NibbleDecodeEntry(st, nib) ==
  Only({
    IF w.error \/ InSeq(EOS, w.emits)
    THEN PackNibble(TRUE, 0, 0, 0, 0)
    ELSE PackNibble(FALSE, index[w.n], Len(w.emits), EmitOr0(w.emits, 1), EmitOr0(w.emits, 2)) :
    w \in { WalkBits(nodes[st + 1], nib, 3, <<>>) } })

kNibbleDecodeTable(idx) == NibbleDecodeEntry(idx \div 16, idx % 16)

kBitTableNibble(st, bit) ==
  Only({
    IF c = 0 THEN [is_error |-> TRUE, next_state |-> 0]
    ELSE [is_error |-> FALSE, next_state |-> IF trie[c].symbol >= 0 THEN 0 ELSE index[c]] :
    c \in { trie[nodes[st + 1]].child[bit + 1] } })

RECURSIVE OnesReachEos(_, _)
OnesReachEos(n, k) ==
  IF k = 0 THEN FALSE
  ELSE \E c \in { trie[n].child[2] } :
         IF c = 0 THEN FALSE
         ELSE IF trie[c].symbol >= 0 THEN trie[c].symbol = EOS
         ELSE OnesReachEos(c, k - 1)

AcceptingNibble(s) == s = 0 \/ OnesReachEos(nodes[s + 1], 7)

kAcceptingNibbleBits(w) ==
  [b \in 0..63 |-> IF w * 64 + b < NStates /\ AcceptingNibble(w * 64 + b) THEN 1 ELSE 0]

(***************************************************************************)
(* huffman::FastDecode (nibble FSM).                                       *)
(***************************************************************************)
NibbleStep(state, nib, mem) ==
  Only({
    IF packed.hi = 1 THEN [error |-> TRUE, state |-> state, mem |-> mem]
    ELSE LET nextState == (packed.lo \div Pow2(22)) % 512
             emitCnt   == (packed.lo \div Pow2(20)) % 4
             c0        == (packed.lo \div Pow2(12)) % 256
             c1        == (packed.lo \div Pow2(4)) % 256
         IN  [error |-> FALSE,
              state |-> nextState,
              mem   |-> IF emitCnt = 2 THEN mem \o <<c0, c1>>
                        ELSE IF emitCnt = 1 THEN Append(mem, c0) ELSE mem] :
    packed \in { kNibbleDecodeTable(state * 16 + nib) } })

RECURSIVE FastDecodeLoop(_, _, _, _)
FastDecodeLoop(ip, pos, state, mem) ==
  IF pos >= Len(ip) THEN [error |-> FALSE, state |-> state, mem |-> mem]
  ELSE LET b == ip[pos + 1]
       IN  Only({
             IF hn.error THEN hn
             ELSE Only({ IF ln.error THEN ln ELSE FastDecodeLoop(ip, pos + 1, ln.state, ln.mem) :
                         ln \in { NibbleStep(hn.state, b % 16, hn.mem) } }) :
             hn \in { NibbleStep(state, (b \div 16) % 16, mem) } })

checkAccepting(s) == kAcceptingNibbleBits(s \div 64)[s % 64] # 0

RECURSIVE FeedOnes(_, _)
FeedOnes(s0, i) ==
  IF i = 0 THEN [invalid |-> FALSE, s0 |-> s0]
  ELSE Only({
         IF entry.is_error THEN [invalid |-> TRUE, s0 |-> s0]
         ELSE FeedOnes(entry.next_state, i - 1) :
         entry \in { kBitTableNibble(s0, 1) } })

PadAccepted(state) ==
  \E pad \in 0..7 : \E f \in { FeedOnes(state, pad) } : ~f.invalid /\ checkAccepting(f.s0)

\* FastDecode after its checks of input_size, ip and out_ptr
FastDecodeBody(ip, input_size, out_ptr, out_size) ==
  Only({
    IF l.error
    THEN Effect(HUFFMAN_DECODE_INVALID_PREFIX_NIBBLE, out_size, l.mem, out_ptr.capacity)
    ELSE IF ~PadAccepted(l.state)
         THEN Effect(HUFFMAN_DECODE_INVALID_EOS_PADDING_NIBBLE, out_size, l.mem, out_ptr.capacity)
         ELSE Effect(NONE, Len(l.mem), l.mem, out_ptr.capacity) :
    l \in { FastDecodeLoop(SubSeq(ip.bytes, 1, input_size), 0, 0, <<>>) } })

\* the output pointer checked before the input pointer
FastDecodeOutputCheckedFirst(ip, input_size, out_ptr, out_size) ==
  IF input_size = 0 THEN Effect(NONE, 0, <<>>, 0)
  ELSE IF out_ptr.null THEN Effect(OUTPUT_NULL_PTR, out_size, <<>>, 0)
  ELSE IF ip.null THEN Effect(INPUT_NULL_PTR, out_size, <<>>, 0)
  ELSE FastDecodeBody(ip, input_size, out_ptr, out_size)

FastDecode(ip, input_size, out_ptr, out_size) ==
  IF input_size = 0 THEN Effect(NONE, 0, <<>>, 0)
  ELSE IF ip.null THEN Effect(INPUT_NULL_PTR, out_size, <<>>, 0)
  ELSE IF out_ptr.null THEN Effect(OUTPUT_NULL_PTR, out_size, <<>>, 0)
  ELSE FastDecodeBody(ip, input_size, out_ptr, out_size)


(***************************************************************************)
(* Callers.  make_encode_buffer(n) and make_decode_buffer(n) give the      *)
(* capacities the example and the test allocate; HuffmanCodec::Encode      *)
(* allocates max_bytes.                                                    *)
(***************************************************************************)
make_decode_buffer(decoded_size) == (decoded_size * 30 + 7) \div 8

make_encode_buffer(undecoded_size) == undecoded_size

max_bytes(input_size) == (input_size * 30 + 7) \div 8

InPtr(bytes) == [null |-> FALSE, bytes |-> bytes]

OutPtr(capacity) == [null |-> FALSE, capacity |-> capacity]

NullInPtr == [null |-> TRUE, bytes |-> <<>>]

NullOutPtr == [null |-> TRUE, capacity |-> 0]

EmptyRawBuffer == [size |-> 0, capacity |-> 0, data |-> <<>>]

(***************************************************************************)
(* stream::BitPacker.  A packer is the record of its members buffer_,      *)
(* current_byte_ and bit_pos_, together with the caller's side of it: the  *)
(* calls of WriteSymbol that returned (log), whether a call threw, and     *)
(* how far the caller is (writing, padded, flushed).                       *)
(***************************************************************************)
NewBitPacker ==
  [buffer_ |-> <<>>, current_byte_ |-> 0, bit_pos_ |-> 0,
   log |-> <<>>, thrown |-> FALSE, phase |-> "writing"]

\* the chunk placed in the low bits of current_byte_
RECURSIVE WriteBitsLowFirst(_, _, _)
WriteBitsLowFirst(bp, value, bits_rem) ==
  IF bits_rem = 0 THEN bp
  ELSE LET b1        == IF bp.bit_pos_ = 8
                        THEN [bp EXCEPT !.buffer_ = Append(@, bp.current_byte_),
                                        !.current_byte_ = 0, !.bit_pos_ = 0]
                        ELSE bp
           free_bits == 8 - b1.bit_pos_
           to_write  == IF free_bits < bits_rem THEN free_bits ELSE bits_rem
           shift     == bits_rem - to_write
           chunk     == ((value \div Pow2(shift)) % Pow2(to_write)) % 256
       IN  WriteBitsLowFirst([b1 EXCEPT !.current_byte_ = U8(Or(U64(@), U64(chunk))),
                                        !.bit_pos_ = @ + to_write],
                             value, shift)

RECURSIVE WriteBitsBE(_, _, _)
WriteBitsBE(bp, value, bits_rem) ==
  IF bits_rem = 0 THEN bp
  ELSE LET b1        == IF bp.bit_pos_ = 8
                        THEN [bp EXCEPT !.buffer_ = Append(@, bp.current_byte_),
                                        !.current_byte_ = 0, !.bit_pos_ = 0]
                        ELSE bp
           free_bits == 8 - b1.bit_pos_
           to_write  == IF free_bits < bits_rem THEN free_bits ELSE bits_rem
           shift     == bits_rem - to_write
           chunk     == ((value \div Pow2(shift)) % Pow2(to_write)) % 256
           placed    == (chunk * Pow2(free_bits - to_write)) % 256
       IN  WriteBitsBE([b1 EXCEPT !.current_byte_ = U8(Or(U64(@), U64(placed))),
                                  !.bit_pos_ = @ + to_write],
                       value, shift)

(***************************************************************************)
(* integer_codec: ncodeInteger and DecodeInteger.  A uint32_t is the       *)
(* record of its two 16-bit halves [hi, lo], so that values up to          *)
(* 2^32 - 1 keep their width.                                              *)
(***************************************************************************)
INPUT_SIZE_ZERO == 3

ENCODE_MAX_BYTES == 6

\* while (rem > 128): a remainder of exactly 128 is written as a last byte
RECURSIVE ncodeIntegerLoopAbove128(_, _)
ncodeIntegerLoopAbove128(rem, mem) ==
  IF rem.hi > 0 \/ rem.lo > 128
  THEN ncodeIntegerLoopAbove128([hi |-> rem.hi \div 128,
                                 lo |-> (rem.lo \div 128) + (rem.hi % 128) * 512],
                                Append(mem, U8(Or(U64(rem.lo % 128), U64(128)))))
  ELSE Append(mem, rem.lo % 256)

\* while (rem >= 128) { out[idx++] = (rem & 0x7F) | 0x80; rem >>= 7; } and the last byte
RECURSIVE ncodeIntegerLoop(_, _)
ncodeIntegerLoop(rem, mem) ==
  IF rem.hi > 0 \/ rem.lo >= 128
  THEN ncodeIntegerLoop([hi |-> rem.hi \div 128,
                         lo |-> (rem.lo \div 128) + (rem.hi % 128) * 512],
                        Append(mem, U8(Or(U64(rem.lo % 128), U64(128)))))
  ELSE Append(mem, rem.lo % 256)

ncodeInteger(out, out_size, prefix_bits, N, value) ==
  IF out.null THEN [status |-> OUTPUT_NULL_PTR, out_size |-> out_size, mem |-> <<>>]
  ELSE IF out_size < ENCODE_MAX_BYTES
  THEN [status |-> BUFFER_TO_SMALL, out_size |-> out_size, mem |-> <<>>]
  ELSE LET max_prefix == Pow2(N) - 1
           First(x)   == U8(Or(U64(prefix_bits * Pow2(N)), U64(x)))
       IN  IF value.hi = 0 /\ value.lo < max_prefix
           THEN [status |-> NONE, out_size |-> 1, mem |-> << First(value.lo) >>]
           ELSE LET rem == IF value.lo >= max_prefix
                           THEN [hi |-> value.hi, lo |-> value.lo - max_prefix]
                           ELSE [hi |-> value.hi - 1, lo |-> value.lo + 65536 - max_prefix]
                IN  Only({ [status |-> NONE, out_size |-> Len(mem), mem |-> mem] :
                           mem \in { ncodeIntegerLoop(rem, << First(max_prefix) >>) } })

\* the continuation bytes from in[idx] on; a read past the bytes of in and a
\* shift by 32 bits or more are undefined: the call then has no defined
\* status or result (status -1, undefined names the cause)
RECURSIVE DecodeIntegerLoop(_, _, _, _)
DecodeIntegerLoop(in, idx, value, multiplier) ==
  IF idx >= Len(in.bytes)
  THEN [status |-> -1, undefined |-> "read_out_of_bounds", out_val |-> value, out_size |-> idx]
  ELSE IF multiplier >= 32
  THEN [status |-> -1, undefined |-> "shift_out_of_range", out_val |-> value, out_size |-> idx]
  ELSE LET b     == in.bytes[idx + 1]
           low7  == b % 128
           add   == IF multiplier < 16
                    THEN [hi |-> (low7 * Pow2(multiplier)) \div 65536,
                          lo |-> (low7 * Pow2(multiplier)) % 65536]
                    ELSE [hi |-> (low7 * Pow2(multiplier - 16)) % 65536, lo |-> 0]
           carry == (value.lo + add.lo) \div 65536
           sum   == [hi |-> (value.hi + add.hi + carry) % 65536,
                     lo |-> (value.lo + add.lo) % 65536]
       IN  IF b < 128
           THEN [status |-> NONE, undefined |-> "no", out_val |-> sum, out_size |-> idx + 1]
           ELSE DecodeIntegerLoop(in, idx + 1, sum, multiplier + 7)

DecodeInteger(in, in_size, N) ==
  IF in.null
  THEN [status |-> INPUT_NULL_PTR, undefined |-> "no", out_val |-> [hi |-> 0, lo |-> 0], out_size |-> 0]
  ELSE IF in_size = 0
  THEN [status |-> INPUT_SIZE_ZERO, undefined |-> "no", out_val |-> [hi |-> 0, lo |-> 0], out_size |-> 0]
  ELSE LET prefix_mask == (Pow2(N) - 1) % 256
           value       == U8(And(U64(in.bytes[1]), U64(prefix_mask)))
       IN  IF value < prefix_mask
           THEN [status |-> NONE, undefined |-> "no", out_val |-> [hi |-> 0, lo |-> value], out_size |-> 1]
           ELSE DecodeIntegerLoop(in, 1, [hi |-> 0, lo |-> prefix_mask], 0)

NoInteger ==
  [phase |-> "none", value |-> [hi |-> 0, lo |-> 0], N |-> 0, prefix_bits |-> 0,
   enc |-> [status |-> -1, out_size |-> 0, mem |-> <<>>],
   dec |-> [status |-> -1, undefined |-> "no", out_val |-> [hi |-> 0, lo |-> 0], out_size |-> 0]]

(***************************************************************************)
(* DynamicTable.  The Entry objects live in heap, queue_ and cache_ hold   *)
(* their positions in it (the shared_ptr values); an Entry carries         *)
(* raw_name, raw_value and index, and gen, the allocation of raw_buffer_   *)
(* its raw_name points into.  raw_buffer_ is its size, its capacity and    *)
(* the number of the allocation it currently owns: a growth moves the      *)
(* bytes to a new block and leaves older views pointing at the freed one.  *)
(* evicted, inserts, lookups and last record what the caller has seen.     *)
(***************************************************************************)
QueueCapacity == 1024

NoStats ==
  [cache_hits |-> 0, cache_misses |-> 0, evictions |-> 0, error_count |-> 0,
   total_encoded_headers |-> 0]

NoLookup == [op |-> "none", found |-> 0]

\* DynamicTable(max_bytes)
NewDynamicTable(max) ==
  [constructed |-> TRUE,
   raw_buffer_ |-> [size |-> 0, capacity |-> max, gen |-> 0],
   heap |-> <<>>, cache_ |-> {}, queue_ |-> <<>>, head_ |-> 0, tail_ |-> 0,
   max_bytes_ |-> max, current_bytes_ |-> 0, stats_ |-> NoStats,
   evicted |-> {}, inserts |-> 0, lookups |-> 0, last |-> NoLookup]

NoDynamicTable == [NewDynamicTable(0) EXCEPT !.constructed = FALSE]

\* RawBuffer::append(n) as far as the table sees it
RawBufferAppendN(buf, n) ==
  IF buf.size + n > buf.capacity
  THEN [size |-> buf.size + n, capacity |-> RawBufferMax(buf.capacity * 2, buf.size + n),
        gen |-> buf.gen + 1]
  ELSE [buf EXCEPT !.size = @ + n]

\* the bytes of the raw_name of entry id can be read: they are in the block
\* raw_buffer_ owns, or the freed block still holds them (intact)
Readable(t, id, intact) == t.heap[id].gen = t.raw_buffer_.gen \/ intact

\* the entries of cache_ whose key compares equal to name
CacheLookup(t, name, intact) ==
  { c \in t.cache_ : Readable(t, c, intact) /\ t.heap[c].raw_name = name }

EvictOne(t, intact) ==
  IF t.head_ = t.tail_ THEN t
  ELSE LET e  == t.queue_[t.head_ + 1]
           sz == Len(t.heap[e].raw_name) + Len(t.heap[e].raw_value)
       IN  [t EXCEPT !.cache_ = IF Readable(t, e, intact)
                                THEN @ \ CacheLookup(t, t.heap[e].raw_name, intact)
                                ELSE @,
                     !.head_ = (t.head_ + 1) % QueueCapacity,
                     !.current_bytes_ = IF @ > sz THEN @ - sz ELSE 0,
                     !.stats_.evictions = @ + 1,
                     !.evicted = @ \cup {e}]

RECURSIVE EvictIfNeeded(_, _, _)
EvictIfNeeded(t, need, intact) ==
  IF t.current_bytes_ + need > t.max_bytes_ /\ t.head_ # t.tail_
  THEN EvictIfNeeded(EvictOne(t, intact), need, intact)
  ELSE t

\* Insert on table t; oom names the append whose allocation fails, if it grows
InsertInto(t, name_slice, value_slice, intact, oom) ==
  LET need == Len(name_slice) + Len(value_slice)
      t1   == EvictIfNeeded(t, need, intact)
      b1   == RawBufferAppendN(t1.raw_buffer_, Len(name_slice))
      b2   == RawBufferAppendN(b1, Len(value_slice))
      id   == Len(t1.heap) + 1
      e    == [raw_name |-> name_slice, raw_value |-> value_slice,
               index |-> 61 + Cardinality(t1.cache_) + 1, gen |-> b1.gen]
      t2   == [t1 EXCEPT !.raw_buffer_ = b2, !.heap = Append(@, e)]
  IN  IF oom = "name" /\ b1.gen # t1.raw_buffer_.gen
      THEN [t1 EXCEPT !.stats_.error_count = @ + 1]
      ELSE IF oom = "value" /\ b2.gen # b1.gen
      THEN [t1 EXCEPT !.raw_buffer_ = b1, !.stats_.error_count = @ + 1]
      ELSE [t2 EXCEPT !.queue_ = IF Len(@) = 0 \/ t1.tail_ = Len(@)
                                 THEN Append(@, id)
                                 ELSE [@ EXCEPT ![t1.tail_ + 1] = id],
                      !.tail_ = (@ + 1) % QueueCapacity,
                      !.cache_ = IF Readable(t2, id, intact) /\ CacheLookup(t2, name_slice, intact) # {}
                                 THEN @ ELSE @ \cup {id},
                      !.current_bytes_ = @ + need,
                      !.stats_.total_encoded_headers = @ + 1,
                      !.last = [op |-> "Insert", found |-> id]]

BytesUsed(t) == t.current_bytes_

(***************************************************************************)
(* Bounds of the model.                                                    *)
(***************************************************************************)
MaxLen == 3

\* calls of Insert on one DynamicTable
MaxCalls == 3

\* calls of Find and FindByIndex on one DynamicTable
MaxLookups == 1

MaxWireLen == 4

\* '0' (5 bits), '&' (8 bits), 'a' (5 bits), NUL (13 bits), LF (30 bits)
SymAlphabet == {48, 38, 97, 0, 10}

WireAlphabet == {0, 31, 253, 254, 255}

WwwExampleCom == <<119, 119, 119, 46, 101, 120, 97, 109, 112, 108, 101, 46, 99, 111, 109>>

NoCache == <<110, 111, 45, 99, 97, 99, 104, 101>>

SeqsUpTo(S, n) == UNION {[1..k -> S] : k \in 0..n}

\* octets above 0x7f (codes of 26 and 20 bits)
HighOctets == <<255, 128>>

\* four codes of 30 bits: 120 bits, the longest encoding of four octets
FourLineFeeds == <<10, 10, 10, 10>>

EncodeInputs ==
  SeqsUpTo(SymAlphabet, MaxLen) \cup {WwwExampleCom, NoCache, HighOctets, FourLineFeeds}

WireInputs == SeqsUpTo(WireAlphabet, MaxWireLen) \ {<<>>}

NotCalled == [status |-> -1, out_size |-> 0, mem |-> <<>>, overrun |-> FALSE]

\* values the caller's out_size variable holds before a call
SizeBefore == {0, 7}

NotProbed == [fn |-> "none", in_null |-> FALSE, out_null |-> FALSE, before |-> 0, effect |-> NotCalled]

NotDecoded == [ok |-> FALSE, message |-> "not called", value |-> 0, out |-> EmptyRawBuffer]

\* what the caller's RawBuffer out holds before HuffmanCodec::Encode: nothing,
\* or the two octets of a header block under construction
PriorOut == {EmptyRawBuffer, [size |-> 2, capacity |-> 2, data |-> <<130, 134>>]}

NotEncoded == [called |-> FALSE, before |-> EmptyRawBuffer, ok |-> FALSE, value |-> 0,
               out |-> EmptyRawBuffer]

\* the table generator before it has emitted anything
NotGenerated == [pc |-> "idle", st |-> 0, emitted |-> 0, table |-> "none", of |-> 0, row |-> <<>>,
                 arena |-> <<>>]

\* number of calls in flight at once
NCallers == 2

Callers == 1..NCallers

\* LF '0' (35 bits, one flush of the accumulator); as wire octets "1s".
\* 0x1f 0xff: "a0a" to HuffmanCodec::Decode, which then ends short of a code.
ConcurrentInputs == {<<10, 48>>, <<31, 255>>}

NoResult == [status |-> NotCalled.status]

\* a caller that has not called yet
Idle == [pc |-> "idle", fn |-> "none", input |-> <<>>, pos |-> 0, acc |-> U64(0), bits |-> 0,
         mem |-> <<>>, buf |-> EmptyRawBuffer, count |-> 0, hooked |-> FALSE,
         result |-> NoResult]

VARIABLES
  pc,       \* position of the caller: start, bit, flat, wire, nib, done
  src,      \* the caller's input octets S
  cap,      \* capacity of the caller's encode buffer
  encBit,   \* effect of FastEncode on (src, buffer of cap bytes)
  encFlat,  \* effect of FastEncodeFlatmap on the same
  wire,     \* the octets handed to the decoders
  origin,   \* who produced wire: FastEncode, FastEncodeFlatmap or peer
  dcap,     \* capacity of the caller's decode buffer
  decNib,   \* effect of FastDecode on wire
  decByte,  \* result of HuffmanCodec::Decode on wire
  probe,    \* a call that passes a null pointer, and its effect
  calls,    \* concurrent calls: each caller's function, buffers and automatic variables
  cells,    \* storage of the decoders' automatic variable state, one cell per call
  g_error_cb, \* the error hook of error_tracer.h: "null" or "hook"
  encStr,   \* HuffmanCodec::Encode on src: out before the call, result and out after
  gen,      \* the table generator: the table and state it is at, the row it last emitted
  packer,  \* a BitPacker: buffer_, current_byte_, bit_pos_, and the calls made on it
  ints,    \* the integer codec: the value and prefix, the bytes written, the result of decoding them
  dyn      \* a DynamicTable: its entries, counters and limits, the entries evicted so far, the last lookup

vars == <<pc, src, cap, encBit, encFlat, wire, origin, dcap, decNib, decByte, probe,
          calls, cells, g_error_cb, encStr, gen,
          packer, ints, dyn>>

Init ==
  /\ pc = "start"
  /\ src \in EncodeInputs
  /\ cap \in {make_encode_buffer(Len(src)), max_bytes(Len(src))}
  /\ encBit = NotCalled
  /\ encFlat = NotCalled
  /\ wire = <<>>
  /\ origin = "none"
  /\ dcap = 0
  /\ decNib = NotCalled
  /\ decByte = NotDecoded
  /\ probe = NotProbed
  /\ calls = [p \in Callers |-> Idle]
  /\ cells = [p \in Callers |-> 0]
  /\ g_error_cb = "null"
  /\ encStr = NotEncoded
  /\ gen = NotGenerated
  /\ packer = NewBitPacker
  /\ ints = NoInteger
  /\ dyn = NoDynamicTable

\* a caller of FastEncode on src with an output buffer of cap bytes
CallFastEncode ==
  /\ pc = "start"
  /\ encBit' = FastEncode(InPtr(src), Len(src), OutPtr(cap), cap)
  /\ pc' = "bit"
  /\ UNCHANGED <<src, cap, encFlat, wire, origin, dcap, decNib, decByte, probe,
               calls, cells, g_error_cb, encStr, gen,
                 packer, ints, dyn>>

\* test main: FastEncodeFlatmap(s.data(), s.size(), encode_buff.mutable_raw(), ec_size)
CallFastEncodeFlatmap ==
  /\ pc = "bit"
  /\ encFlat' = FastEncodeFlatmap(InPtr(src), Len(src), OutPtr(cap), cap)
  /\ pc' = "flat"
  /\ UNCHANGED <<src, cap, encBit, wire, origin, dcap, decNib, decByte, probe,
               calls, cells, g_error_cb, encStr, gen,
                 packer, ints, dyn>>

\* mark_buffer_write(encode_buff, ec_size), then encode_buff.raw() / size()
MarkBufferWrite(which) ==
  /\ pc = "flat"
  /\ LET e == IF which = "FastEncode" THEN encBit ELSE encFlat
     IN  /\ e.status = NONE
         /\ ~e.overrun
         /\ wire' = SubSeq(e.mem, 1, e.out_size)
  /\ origin' = which
  /\ pc' = "wire"
  /\ UNCHANGED <<src, cap, encBit, encFlat, dcap, decNib, decByte, probe,
               calls, cells, g_error_cb, encStr, gen,
                 packer, ints, dyn>>

\* octets that arrive from a peer instead of from this encoder
Receive(E) ==
  /\ pc = "start"
  /\ src = <<>>
  /\ wire' = E
  /\ origin' = "peer"
  /\ pc' = "wire"
  /\ UNCHANGED <<src, cap, encBit, encFlat, dcap, decNib, decByte, probe,
               calls, cells, g_error_cb, encStr, gen,
                 packer, ints, dyn>>

\* a caller of FastDecode on wire; its output buffer is sized either by
\* make_decode_buffer(size of wire), as the example does, or to the size of wire
DecodeCapacity(sizing, n) ==
  IF sizing = "make_decode_buffer" THEN make_decode_buffer(n) ELSE make_encode_buffer(n)

CallFastDecode(sizing) ==
  /\ pc = "wire"
  /\ dcap' = DecodeCapacity(sizing, Len(wire))
  /\ decNib' = FastDecode(InPtr(wire), Len(wire), OutPtr(dcap'), dcap')
  /\ pc' = "nib"
  /\ UNCHANGED <<src, cap, encBit, encFlat, wire, origin, decByte, probe,
               calls, cells, g_error_cb, encStr, gen,
                 packer, ints, dyn>>

\* test main: hc.Decode(encode_buff, decoded_str)
CallDecode ==
  /\ pc = "nib"
  /\ decByte' = Decode(wire, EmptyRawBuffer)
  /\ pc' = "done"
  /\ UNCHANGED <<src, cap, encBit, encFlat, wire, origin, dcap, decNib, probe,
               calls, cells, g_error_cb, encStr, gen,
                 packer, ints, dyn>>

\* a caller of HuffmanCodec::Encode(src, out) whose out holds prior
CallEncode(prior) ==
  /\ pc = "start"
  /\ encStr' = Only({ [called |-> TRUE, before |-> prior, ok |-> e.ok, value |-> e.value,
                          out |-> e.out] :
                         e \in { Encode(src, prior) } })
  /\ pc' = "encoded"
  /\ UNCHANGED <<src, cap, encBit, encFlat, wire, origin, dcap, decNib, decByte, probe,
                 calls, cells, g_error_cb, gen,
                 packer, ints, dyn>>

\* a caller that passes a null pointer for the input, for the output or for
\* both, together with the length of src and some value in out_size
CallCodec(fn, ip, n, op, before) ==
  CASE fn = "FastEncode"        -> FastEncode(ip, n, op, before)
    [] fn = "FastEncodeFlatmap" -> FastEncodeFlatmap(ip, n, op, before)
    [] fn = "FastDecode"        -> FastDecode(ip, n, op, before)

CallWithNull(fn, in_null, out_null, before) ==
  /\ pc = "start"
  /\ in_null \/ out_null
  /\ probe' = [fn |-> fn, in_null |-> in_null, out_null |-> out_null, before |-> before,
               effect |-> CallCodec(fn,
                                    IF in_null THEN NullInPtr ELSE InPtr(src),
                                    Len(src),
                                    IF out_null THEN NullOutPtr ELSE OutPtr(cap),
                                    before)]
  /\ pc' = "probed"
  /\ UNCHANGED <<src, cap, encBit, encFlat, wire, origin, dcap, decNib, decByte,
               calls, cells, g_error_cb, encStr, gen,
                 packer, ints, dyn>>

Next ==
  \/ CallFastEncode
  \/ CallFastEncodeFlatmap
  \/ \E which \in {"FastEncode", "FastEncodeFlatmap"} : MarkBufferWrite(which)
  \/ \E E \in WireInputs : Receive(E)
  \/ \E sizing \in {"make_decode_buffer", "make_encode_buffer"} : CallFastDecode(sizing)
  \/ CallDecode
  \/ \E prior \in PriorOut : CallEncode(prior)
  \/ \E fn \in {"FastEncode", "FastEncodeFlatmap", "FastDecode"}, in_null \in BOOLEAN,
        out_null \in BOOLEAN, before \in SizeBefore : CallWithNull(fn, in_null, out_null, before)

Spec == Init /\ [][Next]_vars

(***************************************************************************)
(* Calls in flight at once.  Each caller owns its input and its output;    *)
(* a call advances one input octet at a time, so that the iterations of    *)
(* different calls interleave in every order.  The automatic variables of  *)
(* a call (i, acc, bits_in_acc; state, out_pos; ptr, out_count) are the    *)
(* fields of calls[p]; the decoders' state is kept in cells, at the cell   *)
(* StateCell gives the call.  The tables are constexpr and never written.  *)
(* g_error_cb is the one object all calls see: HuffmanCodec::Decode reads  *)
(* it on its error paths, SetErrorCallback alone writes it.                *)
(***************************************************************************)
ConcurrentFunctions == {"FastEncodeFlatmap", "FastDecode", "Decode"}

\* the output capacity a caller gives the call
CallCapacity(fn, n) ==
  IF fn \in {"FastEncode", "FastEncodeFlatmap"} THEN max_bytes(n) ELSE make_decode_buffer(n)

\* one cell for every call: state declared static
StateCellStatic(p) == 1

\* uint16_t state = 0 (FastDecode), uint32_t state = 0 (Decode): automatic
\* storage, a fresh cell for every call
StateCell(p) == p

\* the call with non-null pointers and in_size > 0, up to its loop
Begin(p, fn, input) ==
  /\ pc = "concurrent"
  /\ calls[p].pc = "idle"
  /\ calls' = [calls EXCEPT ![p] = [Idle EXCEPT !.pc = "loop", !.fn = fn, !.input = input]]
  /\ cells' = [cells EXCEPT ![StateCell(p)] = 0]
  /\ UNCHANGED <<pc, src, cap, encBit, encFlat, wire, origin, dcap, decNib, decByte, probe,
                 g_error_cb, encStr, gen,
                 packer, ints, dyn>>

\* one iteration of the call's loop, on the octet at pos
Iterate(p) ==
  /\ pc = "concurrent"
  /\ calls[p].pc = "loop"
  /\ calls[p].pos < Len(calls[p].input)
  /\ LET c     == calls[p]
         octet == <<c.input[c.pos + 1]>>
         state == cells[StateCell(p)]
         cp    == CallCapacity(c.fn, Len(c.input))
     IN  CASE c.fn = "FastEncode" ->
                \E l \in { FastEncodeLoop(octet, 1, 0, c.acc, c.bits, c.mem) } :
                  /\ calls' = [calls EXCEPT ![p] = [c EXCEPT !.pos = c.pos + 1, !.acc = l.acc,
                                                             !.bits = l.bits, !.mem = l.mem]]
                  /\ UNCHANGED cells
           [] c.fn = "FastEncodeFlatmap" ->
                \E l \in { FlatmapLoop(octet, 1, 0, c.acc, c.bits, c.mem) } :
                  /\ calls' = [calls EXCEPT ![p] = [c EXCEPT !.pos = c.pos + 1, !.acc = l.acc,
                                                             !.bits = l.bits, !.mem = l.mem]]
                  /\ UNCHANGED cells
           [] c.fn = "FastDecode" ->
                \E l \in { FastDecodeLoop(octet, 0, state, c.mem) } :
                  IF l.error
                  THEN /\ calls' = [calls EXCEPT ![p] =
                                      [c EXCEPT !.pc = "returned", !.mem = l.mem,
                                                !.result = Effect(HUFFMAN_DECODE_INVALID_PREFIX_NIBBLE,
                                                                  0, l.mem, cp)]]
                       /\ UNCHANGED cells
                  ELSE /\ calls' = [calls EXCEPT ![p] = [c EXCEPT !.pos = c.pos + 1, !.mem = l.mem]]
                       /\ cells' = [cells EXCEPT ![StateCell(p)] = l.state]
           [] c.fn = "Decode" ->
                \E l \in { DecodeLoop(octet, 0, state, c.buf, c.count) } :
                  IF l.status # "loop_end"
                  THEN /\ calls' = [calls EXCEPT ![p] =
                                      [c EXCEPT !.pc = "returned", !.buf = l.out,
                                                !.hooked = (g_error_cb # "null"),
                                                !.result = [ok |-> FALSE, message |-> l.status,
                                                            value |-> 0, out |-> l.out]]]
                       /\ UNCHANGED cells
                  ELSE /\ calls' = [calls EXCEPT ![p] = [c EXCEPT !.pos = c.pos + 1, !.buf = l.out,
                                                                  !.count = l.out_count]]
                       /\ cells' = [cells EXCEPT ![StateCell(p)] = l.state]
  /\ UNCHANGED <<pc, src, cap, encBit, encFlat, wire, origin, dcap, decNib, decByte, probe,
                 g_error_cb, encStr, gen,
                 packer, ints, dyn>>

\* the call after its loop: padding and tail of the encoder, the check of the
\* final state of the decoders
Return(p) ==
  /\ pc = "concurrent"
  /\ calls[p].pc = "loop"
  /\ calls[p].pos = Len(calls[p].input)
  /\ LET c     == calls[p]
         state == cells[StateCell(p)]
         cp    == CallCapacity(c.fn, Len(c.input))
     IN  CASE c.fn = "FastEncode" ->
                \E pad \in { FastEncodePadBits(c.bits) } :
                \E tmp \in { Or(Shl(c.acc, 32 - c.bits), Shl(LowMask(pad), 32 - c.bits - pad)) } :
                \E mem \in { IF c.bits > 0 THEN FastEncodeTail(tmp, c.bits, pad, 24, c.mem)
                                            ELSE c.mem } :
                  calls' = [calls EXCEPT ![p] = [c EXCEPT !.pc = "returned", !.mem = mem,
                                                          !.result = Effect(NONE, Len(mem), mem, cp)]]
           [] c.fn = "FastEncodeFlatmap" ->
                \E pad \in { FlatmapPadBits(c.bits) } :
                \E mem \in { IF c.bits > 0
                             THEN FlatmapTail(Or(Shl(c.acc, pad), LowMask(pad)), c.bits + pad, c.mem)
                             ELSE c.mem } :
                  calls' = [calls EXCEPT ![p] = [c EXCEPT !.pc = "returned", !.mem = mem,
                                                          !.result = Effect(NONE, Len(mem), mem, cp)]]
           [] c.fn = "FastDecode" ->
                calls' = [calls EXCEPT ![p] =
                            [c EXCEPT !.pc = "returned",
                                      !.result = IF ~PadAccepted(state)
                                                 THEN Effect(HUFFMAN_DECODE_INVALID_EOS_PADDING_NIBBLE,
                                                             0, c.mem, cp)
                                                 ELSE Effect(NONE, Len(c.mem), c.mem, cp)]]
           [] c.fn = "Decode" ->
                calls' = [calls EXCEPT ![p] =
                            [c EXCEPT !.pc = "returned",
                                      !.hooked = (~kAccepting(state) /\ g_error_cb # "null"),
                                      !.result = IF ~kAccepting(state)
                                                 THEN [ok |-> FALSE,
                                                       message |-> "Huffman decode incomplete",
                                                       value |-> 0, out |-> c.buf]
                                                 ELSE [ok |-> TRUE, message |-> "",
                                                       value |-> c.count, out |-> c.buf]]]
  /\ UNCHANGED <<pc, src, cap, encBit, encFlat, wire, origin, dcap, decNib, decByte, probe,
                 cells, g_error_cb, encStr, gen,
                 packer, ints, dyn>>

\* no call has begun; the program may have registered an error hook before
ConcurrentInit ==
  /\ pc = "concurrent"
  /\ src = <<>>
  /\ cap = 0
  /\ encBit = NotCalled
  /\ encFlat = NotCalled
  /\ wire = <<>>
  /\ origin = "none"
  /\ dcap = 0
  /\ decNib = NotCalled
  /\ decByte = NotDecoded
  /\ probe = NotProbed
  /\ calls = [p \in Callers |-> Idle]
  /\ cells = [p \in Callers |-> 0]
  /\ g_error_cb \in {"null", "hook"}
  /\ encStr = NotEncoded
  /\ gen = NotGenerated
  /\ packer = NewBitPacker
  /\ ints = NoInteger
  /\ dyn = NoDynamicTable

ConcurrentNext ==
  \/ \E p \in Callers, fn \in ConcurrentFunctions, input \in ConcurrentInputs : Begin(p, fn, input)
  \/ \E p \in Callers : Iterate(p)
  \/ \E p \in Callers : Return(p)

SpecConcurrent == ConcurrentInit /\ [][ConcurrentNext]_vars

(***************************************************************************)
(* One call of an encoder followed through its loop, iteration by          *)
(* iteration, on every input of EncodeInputs.                              *)
(***************************************************************************)
Encoders == {"FastEncode", "FastEncodeFlatmap"}

EncoderLoopNext ==
  \/ \E fn \in Encoders, input \in EncodeInputs \ {<<>>} : Begin(1, fn, input)
  \/ Iterate(1)
  \/ Return(1)

SpecEncoderLoop == ConcurrentInit /\ [][EncoderLoopNext]_vars

(***************************************************************************)
(* The table generator (huffman_table_gen_v1_main.cc), one iteration of    *)
(* its loops at a time: the code of a symbol inserted into the trie        *)
(* (gen.arena), then, over the states, the 256 entries of a state of       *)
(* kByteDecodeTable, the flags of kAccepting, the two entries of a state   *)
(* of kBitTable.  gen.emitted counts the entries written to the table      *)
(* under construction, gen.row holds the entries written last, gen.of the  *)
(* symbol or state they belong to.  The tables are computed on trie, the   *)
(* arena the loop over the symbols ends with.                              *)
(***************************************************************************)
Codegen == pc = "codegen"

\* for (sym = 0; sym < 257; ++sym): the code of sym inserted from the root
InsertSymbol ==
  /\ Codegen
  /\ gen.pc = "trie"
  /\ gen.st < NSYM
  /\ gen' = [pc      |-> IF gen.st + 1 < NSYM THEN "trie" ELSE "kByteDecodeTable",
             st      |-> IF gen.st + 1 < NSYM THEN gen.st + 1 ELSE 0,
             emitted |-> 0,
             table   |-> "trie",
             of      |-> gen.st,
             row     |-> <<>>,
             arena   |-> InsertCode(gen.arena, root, CODE[gen.st + 1], LEN[gen.st + 1] - 1, gen.st)]
  /\ UNCHANGED <<pc, src, cap, encBit, encFlat, wire, origin, dcap, decNib, decByte, probe,
                 calls, cells, g_error_cb, encStr,
                 packer, ints, dyn>>

\* for (byte = 0; byte < 256; ++byte) of state st
EmitByteDecodeRow ==
  /\ Codegen
  /\ gen.pc = "kByteDecodeTable"
  /\ gen.st < NStates
  /\ gen' = [pc      |-> IF gen.st + 1 < NStates THEN "kByteDecodeTable" ELSE "kAccepting",
             st      |-> IF gen.st + 1 < NStates THEN gen.st + 1 ELSE 0,
             emitted |-> gen.emitted + 256,
             table   |-> "kByteDecodeTable",
             of      |-> gen.st,
             row     |-> [k \in 1..256 |-> ByteDecodeEntry(gen.st, k - 1)],
             arena   |-> gen.arena]
  /\ UNCHANGED <<pc, src, cap, encBit, encFlat, wire, origin, dcap, decNib, decByte, probe,
                 calls, cells, g_error_cb, encStr,
                 packer, ints, dyn>>

\* the flag of state i
EmitAccepting ==
  /\ Codegen
  /\ gen.pc = "kAccepting"
  /\ gen.st < NStates
  /\ gen' = [pc      |-> IF gen.st + 1 < NStates THEN "kAccepting" ELSE "kStateDepth",
             st      |-> IF gen.st + 1 < NStates THEN gen.st + 1 ELSE 0,
             emitted |-> IF gen.table = "kAccepting" THEN gen.emitted + 1 ELSE 1,
             table   |-> "kAccepting",
             of      |-> gen.st,
             row     |-> << kAccepting(gen.st) >>,
             arena   |-> gen.arena]
  /\ UNCHANGED <<pc, src, cap, encBit, encFlat, wire, origin, dcap, decNib, decByte, probe,
                 calls, cells, g_error_cb, encStr,
                 packer, ints, dyn>>

\* the depth of state i
EmitStateDepth ==
  /\ Codegen
  /\ gen.pc = "kStateDepth"
  /\ gen.st < NStates
  /\ gen' = [pc      |-> IF gen.st + 1 < NStates THEN "kStateDepth" ELSE "kBitTable",
             st      |-> IF gen.st + 1 < NStates THEN gen.st + 1 ELSE 0,
             emitted |-> IF gen.table = "kStateDepth" THEN gen.emitted + 1 ELSE 1,
             table   |-> "kStateDepth",
             of      |-> gen.st,
             row     |-> << kStateDepth(gen.st) >>,
             arena   |-> gen.arena]
  /\ UNCHANGED <<pc, src, cap, encBit, encFlat, wire, origin, dcap, decNib, decByte, probe,
                 calls, cells, g_error_cb, encStr,
                 packer, ints, dyn>>

\* for (bit = 0; bit < 2; ++bit) of state st
EmitBitRow ==
  /\ Codegen
  /\ gen.pc = "kBitTable"
  /\ gen.st < NStates
  /\ gen' = [pc      |-> IF gen.st + 1 < NStates THEN "kBitTable" ELSE "kNibbleDecodeTable",
             st      |-> IF gen.st + 1 < NStates THEN gen.st + 1 ELSE 0,
             emitted |-> IF gen.table = "kBitTable" THEN gen.emitted + 2 ELSE 2,
             table   |-> "kBitTable",
             of      |-> gen.st,
             row     |-> << BitDecodeEntry(gen.st, 0), BitDecodeEntry(gen.st, 1) >>,
             arena   |-> gen.arena]
  /\ UNCHANGED <<pc, src, cap, encBit, encFlat, wire, origin, dcap, decNib, decByte, probe,
                 calls, cells, g_error_cb, encStr,
                 packer, ints, dyn>>

\* the nibble-table generator over the same trie: the 16 packed words of state st
EmitNibbleRow ==
  /\ Codegen
  /\ gen.pc = "kNibbleDecodeTable"
  /\ gen.st < NStates
  /\ gen' = [pc      |-> IF gen.st + 1 < NStates THEN "kNibbleDecodeTable" ELSE "done",
             st      |-> IF gen.st + 1 < NStates THEN gen.st + 1 ELSE 0,
             emitted |-> IF gen.table = "kNibbleDecodeTable" THEN gen.emitted + 16 ELSE 16,
             table   |-> "kNibbleDecodeTable",
             of      |-> gen.st,
             row     |-> [k \in 1..16 |-> NibbleDecodeEntry(gen.st, k - 1)],
             arena   |-> gen.arena]
  /\ UNCHANGED <<pc, src, cap, encBit, encFlat, wire, origin, dcap, decNib, decByte, probe,
                 calls, cells, g_error_cb, encStr,
                 packer, ints, dyn>>

\* GenerateEncodeTable, for (sym = 0; sym < 257; sym++): the entry of sym
EmitEncodeEntry ==
  /\ Codegen
  /\ gen.pc = "kEncodeTable"
  /\ gen.st < NSYM
  /\ gen' = [pc      |-> IF gen.st + 1 < NSYM THEN "kEncodeTable" ELSE "done",
             st      |-> IF gen.st + 1 < NSYM THEN gen.st + 1 ELSE 0,
             emitted |-> gen.emitted + 1,
             table   |-> "kEncodeTable",
             of      |-> gen.st,
             row     |-> << kEncodeTable(gen.st) >>,
             arena   |-> gen.arena]
  /\ UNCHANGED <<pc, src, cap, encBit, encFlat, wire, origin, dcap, decNib, decByte, probe,
                 calls, cells, g_error_cb, encStr,
                 packer, ints, dyn>>

\* the decode-table generator with its root allocated and no code inserted
\* yet, or the encode-table generator before its first entry
CodegenInit ==
  /\ pc = "codegen"
  /\ src = <<>>
  /\ cap = 0
  /\ encBit = NotCalled
  /\ encFlat = NotCalled
  /\ wire = <<>>
  /\ origin = "none"
  /\ dcap = 0
  /\ decNib = NotCalled
  /\ decByte = NotDecoded
  /\ probe = NotProbed
  /\ calls = [p \in Callers |-> Idle]
  /\ cells = [p \in Callers |-> 0]
  /\ g_error_cb = "null"
  /\ encStr = NotEncoded
  /\ gen \in { [NotGenerated EXCEPT !.pc = "trie", !.arena = <<Node>>],
               [NotGenerated EXCEPT !.pc = "kEncodeTable"] }
  /\ packer = NewBitPacker
  /\ ints = NoInteger
  /\ dyn = NoDynamicTable

CodegenNext ==
  \/ InsertSymbol
  \/ EmitByteDecodeRow
  \/ EmitAccepting
  \/ EmitStateDepth
  \/ EmitBitRow
  \/ EmitNibbleRow
  \/ EmitEncodeEntry

SpecCodegen == CodegenInit /\ [][CodegenNext]_vars

(***************************************************************************)
(* A caller of BitPacker: up to MaxLen calls of WriteSymbol, then          *)
(* PadWithSymbol with the EOS code, then Flush.                            *)
(***************************************************************************)
\* the codes of the octets of SymAlphabet, two values that are no codes (one
\* with bits above bit_len), and two lengths WriteSymbol refuses
WriteSymbolInputs ==
  { <<CODE[c + 1], LEN[c + 1]>> : c \in SymAlphabet } \cup { <<255, 3>>, <<1, 1>>, <<5, 0>>, <<5, 31>> }

WriteSymbol(symbol, bit_len) ==
  /\ pc = "bitpacker"
  /\ packer.phase = "writing"
  /\ Len(packer.log) < MaxLen
  /\ packer' = IF bit_len = 0 \/ bit_len > 30
               THEN [packer EXCEPT !.thrown = TRUE]
               ELSE [WriteBitsBE(packer, symbol % Pow2(bit_len), bit_len)
                       EXCEPT !.log = Append(@, [symbol |-> symbol, bit_len |-> bit_len])]
  /\ UNCHANGED <<pc, src, cap, encBit, encFlat, wire, origin, dcap, decNib, decByte, probe,
                 calls, cells, g_error_cb, encStr, gen, ints, dyn>>

PadWithSymbol(symbol, bit_len) ==
  /\ pc = "bitpacker"
  /\ packer.phase = "writing"
  /\ packer' = IF bit_len = 0 \/ bit_len > 32
               THEN [packer EXCEPT !.thrown = TRUE]
               ELSE IF packer.bit_pos_ = 0
               THEN [packer EXCEPT !.phase = "padded"]
               ELSE LET need  == 8 - packer.bit_pos_
                        shift == (bit_len - need) % 256
                        pad   == (((symbol % Pow2(bit_len)) \div Pow2(shift)) % Pow2(need)) % 256
                    IN  [WriteBitsBE(packer, pad, need) EXCEPT !.phase = "padded"]
  /\ UNCHANGED <<pc, src, cap, encBit, encFlat, wire, origin, dcap, decNib, decByte, probe,
                 calls, cells, g_error_cb, encStr, gen, ints, dyn>>

Flush ==
  /\ pc = "bitpacker"
  /\ packer.phase = "padded"
  /\ packer' = IF packer.bit_pos_ > 0
               THEN [packer EXCEPT !.buffer_ = Append(@, packer.current_byte_),
                                   !.current_byte_ = 0, !.bit_pos_ = 0, !.phase = "flushed"]
               ELSE [packer EXCEPT !.phase = "flushed"]
  /\ UNCHANGED <<pc, src, cap, encBit, encFlat, wire, origin, dcap, decNib, decByte, probe,
                 calls, cells, g_error_cb, encStr, gen, ints, dyn>>

BitPackerInit ==
  /\ pc = "bitpacker"
  /\ src = <<>>
  /\ cap = 0
  /\ encBit = NotCalled
  /\ encFlat = NotCalled
  /\ wire = <<>>
  /\ origin = "none"
  /\ dcap = 0
  /\ decNib = NotCalled
  /\ decByte = NotDecoded
  /\ probe = NotProbed
  /\ calls = [p \in Callers |-> Idle]
  /\ cells = [p \in Callers |-> 0]
  /\ g_error_cb = "null"
  /\ encStr = NotEncoded
  /\ gen = NotGenerated
  /\ packer = NewBitPacker
  /\ ints = NoInteger
  /\ dyn = NoDynamicTable

BitPackerNext ==
  \/ \E w \in WriteSymbolInputs : WriteSymbol(w[1], w[2])
  \/ PadWithSymbol(CODE[EOS + 1], LEN[EOS + 1])
  \/ Flush

SpecBitPacker == BitPackerInit /\ [][BitPackerNext]_vars

(***************************************************************************)
(* A caller of the integer codec: ncodeInteger on a value, then            *)
(* DecodeInteger on the bytes it wrote.                                    *)
(***************************************************************************)
\* values around the prefix limits 31, 63, 127 and 255, around the 7-bit
\* groups of the continuation bytes, and up to 2^32 - 1
IntegerValues ==
  { [hi |-> h, lo |-> l] : h \in {0, 1, 255, 32767, 65535},
                           l \in {0, 10, 30, 31, 62, 63, 126, 127, 128, 158, 159, 254, 255, 256,
                                  1337, 16383, 16414, 65535} }

PrefixSizes == {5, 6, 7, 8}

CallNcodeInteger(value, N, prefix_bits, out) ==
  /\ pc = "integer"
  /\ ints.phase = "none"
  /\ ints' = [ints EXCEPT !.phase = "encoded", !.value = value, !.N = N,
                          !.prefix_bits = prefix_bits,
                          !.enc = ncodeInteger(out, out.capacity, prefix_bits, N, value)]
  /\ UNCHANGED <<pc, src, cap, encBit, encFlat, wire, origin, dcap, decNib, decByte, probe,
                 calls, cells, g_error_cb, encStr, gen, packer, dyn>>

CallDecodeInteger ==
  /\ pc = "integer"
  /\ ints.phase = "encoded"
  /\ ints.enc.status = NONE
  /\ ints' = [ints EXCEPT !.phase = "decoded",
                          !.dec = DecodeInteger(InPtr(ints.enc.mem), ints.enc.out_size, ints.N)]
  /\ UNCHANGED <<pc, src, cap, encBit, encFlat, wire, origin, dcap, decNib, decByte, probe,
                 calls, cells, g_error_cb, encStr, gen, packer, dyn>>

IntegerInit ==
  /\ pc = "integer"
  /\ src = <<>>
  /\ cap = 0
  /\ encBit = NotCalled
  /\ encFlat = NotCalled
  /\ wire = <<>>
  /\ origin = "none"
  /\ dcap = 0
  /\ decNib = NotCalled
  /\ decByte = NotDecoded
  /\ probe = NotProbed
  /\ calls = [p \in Callers |-> Idle]
  /\ cells = [p \in Callers |-> 0]
  /\ g_error_cb = "null"
  /\ encStr = NotEncoded
  /\ gen = NotGenerated
  /\ packer = NewBitPacker
  /\ ints = NoInteger
  /\ dyn = NoDynamicTable

IntegerNext ==
  \/ \E value \in IntegerValues, N \in PrefixSizes, prefix_bits \in {0, 1},
         out \in {OutPtr(ENCODE_MAX_BYTES), OutPtr(3), NullOutPtr} :
       CallNcodeInteger(value, N, prefix_bits, out)
  \/ CallDecodeInteger

SpecInteger == IntegerInit /\ [][IntegerNext]_vars

(***************************************************************************)
(* A caller of one DynamicTable.  intact says what a read of a freed block *)
(* gives during the call: the bytes it held, or something that compares    *)
(* equal to no name.                                                       *)
(***************************************************************************)
\* "x" and "yy"
NameSlices == { <<120>>, <<121, 121>> }

\* "1" and "222"
ValueSlices == { <<49>>, <<50, 50, 50>> }

MaxBytesValues == {0, 8}

TableRest == <<pc, src, cap, encBit, encFlat, wire, origin, dcap, decNib, decByte, probe,
               calls, cells, g_error_cb, encStr, gen, packer, ints>>

Dyn == pc = "dyntable" /\ dyn.constructed

Insert(name_slice, value_slice, intact, oom) ==
  /\ Dyn
  /\ dyn.inserts < MaxCalls
  /\ dyn' = [InsertInto([dyn EXCEPT !.last = NoLookup], name_slice, value_slice, intact, oom)
               EXCEPT !.inserts = @ + 1]
  /\ UNCHANGED TableRest

SetMaxBytes(new_max, intact) ==
  /\ Dyn
  /\ dyn' = EvictIfNeeded([dyn EXCEPT !.max_bytes_ = new_max, !.last = NoLookup], 0, intact)
  /\ UNCHANGED TableRest

Clear ==
  /\ Dyn
  /\ dyn' = [dyn EXCEPT !.cache_ = {}, !.queue_ = <<>>, !.head_ = 0, !.tail_ = 0,
                        !.current_bytes_ = 0, !.raw_buffer_.size = 0, !.stats_ = NoStats,
                        !.last = NoLookup]
  /\ UNCHANGED TableRest

Find(name, intact) ==
  /\ Dyn
  /\ dyn.lookups < MaxLookups
  /\ \E it \in 0..MaxCalls :
       /\ IF CacheLookup(dyn, name, intact) = {} THEN it = 0
          ELSE it \in CacheLookup(dyn, name, intact)
       /\ dyn' = [dyn EXCEPT !.stats_.cache_misses = IF it = 0 THEN @ + 1 ELSE @,
                             !.stats_.cache_hits = IF it # 0 THEN @ + 1 ELSE @,
                             !.lookups = @ + 1,
                             !.last = [op |-> "Find", found |-> it]]
  /\ UNCHANGED TableRest

FindByIndex(idx) ==
  /\ Dyn
  /\ dyn.lookups < MaxLookups
  /\ LET hits == { k \in 1..Len(dyn.queue_) : dyn.heap[dyn.queue_[k]].index = idx }
         e    == IF hits = {} THEN 0
                 ELSE dyn.queue_[CHOOSE k \in hits : \A j \in hits : k <= j]
     IN  dyn' = [dyn EXCEPT !.stats_.cache_misses = IF e = 0 THEN @ + 1 ELSE @,
                           !.stats_.cache_hits = IF e # 0 THEN @ + 1 ELSE @,
                           !.lookups = @ + 1,
                           !.last = [op |-> "FindByIndex", found |-> e]]
  /\ UNCHANGED TableRest

DynamicTableInit ==
  /\ pc = "dyntable"
  /\ src = <<>>
  /\ cap = 0
  /\ encBit = NotCalled
  /\ encFlat = NotCalled
  /\ wire = <<>>
  /\ origin = "none"
  /\ dcap = 0
  /\ decNib = NotCalled
  /\ decByte = NotDecoded
  /\ probe = NotProbed
  /\ calls = [p \in Callers |-> Idle]
  /\ cells = [p \in Callers |-> 0]
  /\ g_error_cb = "null"
  /\ encStr = NotEncoded
  /\ gen = NotGenerated
  /\ packer = NewBitPacker
  /\ ints = NoInteger
  /\ dyn \in { NewDynamicTable(max) : max \in {4, 8} }

DynamicTableNext ==
  \/ \E name \in NameSlices, value \in ValueSlices, intact \in BOOLEAN,
         oom \in {"none", "name", "value"} : Insert(name, value, intact, oom)
  \/ \E new_max \in MaxBytesValues, intact \in BOOLEAN : SetMaxBytes(new_max, intact)
  \/ Clear
  \/ \E name \in NameSlices, intact \in BOOLEAN : Find(name, intact)
  \/ \E idx \in 62..(62 + MaxCalls) : FindByIndex(idx)

SpecDynamicTable == DynamicTableInit /\ [][DynamicTableNext]_vars

(***************************************************************************)
(* Reference notions the properties are stated with: the RFC 7541 bit      *)
(* string of an input, its packing into octets, and the left-to-right      *)
(* parse of an octet string into codes.                                    *)
(***************************************************************************)
Called(e) == e.status # NotCalled.status

Written(e) == SubSeq(e.mem, 1, e.out_size)

CodeBits(sym) == [k \in 1..LEN[sym + 1] |-> BitAt(CODE[sym + 1], LEN[sym + 1] - k)]

RECURSIVE ConcatCodes(_)
ConcatCodes(S) == IF S = <<>> THEN <<>> ELSE CodeBits(Head(S)) \o ConcatCodes(Tail(S))

RECURSIVE SumLen(_)
SumLen(S) == IF S = <<>> THEN 0 ELSE LEN[Head(S) + 1] + SumLen(Tail(S))

PadOnes(B) == [k \in 1..((8 - (Len(B) % 8)) % 8) |-> 1]

PackMsbFirst(bits) ==
  [j \in 1..(Len(bits) \div 8) |->
     bits[8 * j - 7] * 128 + bits[8 * j - 6] * 64 + bits[8 * j - 5] * 32 + bits[8 * j - 4] * 16
     + bits[8 * j - 3] * 8 + bits[8 * j - 2] * 4 + bits[8 * j - 1] * 2 + bits[8 * j]]

Rfc7541Encoding(S) == LET B == ConcatCodes(S) IN PackMsbFirst(B \o PadOnes(B))

\* bit k (0 = most significant bit of the first octet) of the octet string E
OctetBit(E, k) == BitAt(E[(k \div 8) + 1], 7 - (k % 8))

\* parse of E from bit k at trie node n; tail = the bits since the last completed code
RECURSIVE ParseFrom(_, _, _, _)
ParseFrom(E, k, n, tail) ==
  IF k >= 8 * Len(E) THEN [eos |-> FALSE, tail |-> tail]
  ELSE LET b == OctetBit(E, k)
           c == trie[n].child[b + 1]
       IN  IF c = 0 THEN [eos |-> FALSE, tail |-> Append(tail, b)]
           ELSE IF trie[c].symbol = EOS THEN [eos |-> TRUE, tail |-> <<>>]
           ELSE IF trie[c].symbol >= 0 THEN ParseFrom(E, k + 1, root, <<>>)
           ELSE ParseFrom(E, k + 1, c, Append(tail, b))

Parse(E) == ParseFrom(E, 0, root, <<>>)

AllOnes(bits) == \A k \in 1..Len(bits) : bits[k] = 1

DecodedByFastDecode == pc \in {"nib", "done"}

DecodedByBoth == pc = "done"

(***************************************************************************)
(* C1: for every octet sequence S, FastEncode on S followed by FastDecode  *)
(* on exactly the octets FastEncode wrote returns success and S.           *)
(***************************************************************************)
C1_FastRoundTrip ==
  (DecodedByFastDecode /\ origin = "FastEncode")
    => /\ decNib.status = NONE
       /\ Written(decNib) = src

(***************************************************************************)
(* C2: for every octet sequence S, FastEncodeFlatmap on S followed by      *)
(* HuffmanCodec::Decode (kByteDecodeTable, kAccepting) on the written      *)
(* octets succeeds and yields exactly S.                                   *)
(***************************************************************************)
C2_FlatmapFullByteRoundTrip ==
  (DecodedByBoth /\ origin = "FastEncodeFlatmap")
    => /\ decByte.ok
       /\ decByte.value = Len(src)
       /\ decByte.out.data = src

(***************************************************************************)
(* C3: the octets FastEncodeFlatmap writes are exactly the MSB-first       *)
(* packing of B followed by P, B the concatenated codes of S and P         *)
(* (8 - |B| mod 8) mod 8 one bits; "www.example.com" gives                 *)
(* f1 e3 c2 e5 f2 3a 6b a0 ab 90 f4 ff and the octet 0x00 gives ff c7.     *)
(***************************************************************************)
C3_FlatmapPacking ==
  Called(encFlat)
    => /\ encFlat.status = NONE
       /\ encFlat.mem = Rfc7541Encoding(src)
       /\ encFlat.out_size = Len(encFlat.mem)
       /\ src = WwwExampleCom
            => encFlat.mem = <<241, 227, 194, 229, 242, 58, 107, 160, 171, 144, 244, 255>>
       /\ src = <<0>> => encFlat.mem = <<255, 199>>

\* FastEncodeFlatmap has encoded "www.example.com" (91 bits, 5 bits of padding)
C3_Witness ==
  /\ pc = "flat"
  /\ src = WwwExampleCom
  /\ Len(encFlat.mem) = 12
  /\ encFlat.mem[12] = 255

(***************************************************************************)
(* C4: for every non-empty S the padding FastEncode adds, out_size * 8     *)
(* minus the sum of the code lengths, lies in 0..7, each of those trailing *)
(* bits is 1, and out_size is the sum of the code lengths over 8, rounded  *)
(* up.                                                                     *)
(***************************************************************************)
C4_FastEncodePadding ==
  (Called(encBit) /\ src # <<>>)
    => LET total == SumLen(src)
           pad   == encBit.out_size * 8 - total
       IN  /\ pad \in 0..7
           /\ \A k \in total..(encBit.out_size * 8 - 1) : OctetBit(Written(encBit), k) = 1
           /\ encBit.out_size = (total + 7) \div 8

(***************************************************************************)
(* C5: FastEncode and FastEncodeFlatmap return the same status and write   *)
(* the same out_size and the same octets for every input.                  *)
(***************************************************************************)
C5_EncodersAgree ==
  (Called(encBit) /\ Called(encFlat))
    => /\ encBit.status = encFlat.status
       /\ encBit.out_size = encFlat.out_size
       /\ encBit.mem = encFlat.mem

(***************************************************************************)
(* C6: for every octet sequence E, HuffmanCodec::Decode and FastDecode     *)
(* agree: both succeed with identical output, or both fail with the        *)
(* equivalent kind of error (invalid prefix, or invalid padding/EOS).      *)
(***************************************************************************)
C6_DecodersAgree ==
  DecodedByBoth
    => \/ /\ decNib.status = NONE
          /\ decByte.ok
          /\ Written(decNib) = decByte.out.data
       \/ /\ decNib.status = HUFFMAN_DECODE_INVALID_PREFIX_NIBBLE
          /\ ~decByte.ok
          /\ decByte.message = "Huffman invalid code"
       \/ /\ decNib.status = HUFFMAN_DECODE_INVALID_EOS_PADDING_NIBBLE
          /\ ~decByte.ok
          /\ decByte.message = "Huffman decode incomplete"

(***************************************************************************)
(* C7: FastDecode and HuffmanCodec::Decode return an error, never success, *)
(* for every input whose left-to-right parse from state 0 reaches the EOS  *)
(* leaf (for example ff ff ff ff).                                         *)
(***************************************************************************)
C7_EosRejected ==
  (DecodedByBoth /\ wire # <<>> /\ Parse(wire).eos)
    => /\ decNib.status # NONE
       /\ ~decByte.ok

(***************************************************************************)
(* C8: the decoders return an error, never success, for every input whose  *)
(* bits after the last completed code are eight or more one bits (for      *)
(* example ff, and ff ff ff).                                              *)
(***************************************************************************)
C8_OverlongPaddingRejected ==
  (DecodedByBoth /\ wire # <<>> /\ ~Parse(wire).eos
     /\ Len(Parse(wire).tail) >= 8 /\ AllOnes(Parse(wire).tail))
    => /\ decNib.status # NONE
       /\ ~decByte.ok

(***************************************************************************)
(* C9: the decoders return the invalid-padding error for every input whose *)
(* bits after the last completed code include a zero bit (for example 00,  *)
(* and fe); such an input is never accepted.                               *)
(***************************************************************************)
C9_ZeroInTailRejected ==
  (DecodedByBoth /\ wire # <<>> /\ ~Parse(wire).eos /\ ~AllOnes(Parse(wire).tail))
    => /\ decNib.status = HUFFMAN_DECODE_INVALID_EOS_PADDING_NIBBLE
       /\ ~decByte.ok
       /\ decByte.message = "Huffman decode incomplete"

(***************************************************************************)
(* C10: the encoders and the decoder return BUFFER_TO_SMALL, and write     *)
(* nothing beyond the caller's buffer, whenever the capacity of the        *)
(* caller's output buffer is smaller than the number of octets the result  *)
(* needs.                                                                  *)
(***************************************************************************)
C10_OutputTooSmall ==
  /\ (Called(encBit) /\ cap < Len(Rfc7541Encoding(src)))
       => (encBit.status = BUFFER_TO_SMALL /\ ~encBit.overrun)
  /\ (Called(encFlat) /\ cap < Len(Rfc7541Encoding(src)))
       => (encFlat.status = BUFFER_TO_SMALL /\ ~encFlat.overrun)
  /\ (DecodedByFastDecode /\ origin # "peer" /\ dcap < Len(src))
       => (decNib.status = BUFFER_TO_SMALL /\ ~decNib.overrun)

(***************************************************************************)
(* C11: with the output buffer of make_encode_buffer(n) for an input of n  *)
(* octets, as the example and the test allocate it, FastEncode and         *)
(* FastEncodeFlatmap never write at an offset at or beyond the capacity.   *)
(***************************************************************************)
C11_MakeEncodeBufferHoldsOutput ==
  /\ (Called(encBit) /\ cap = make_encode_buffer(Len(src))) => Len(encBit.mem) <= cap
  /\ (Called(encFlat) /\ cap = make_encode_buffer(Len(src))) => Len(encFlat.mem) <= cap

(***************************************************************************)
(* C12: whenever an encoder or the decoder returns an error (null pointer, *)
(* invalid prefix, invalid padding/EOS) the count it reports through       *)
(* out_size is zero, whatever out_size held before the call.               *)
(***************************************************************************)
C12_ErrorReportsZero ==
  /\ (Called(encBit) /\ encBit.status # NONE) => encBit.out_size = 0
  /\ (Called(encFlat) /\ encFlat.status # NONE) => encFlat.out_size = 0
  /\ (Called(decNib) /\ decNib.status # NONE) => decNib.out_size = 0
  /\ (Called(probe.effect) /\ probe.effect.status # NONE) => probe.effect.out_size = 0

(***************************************************************************)
(* C13: with a non-zero input length the encoders and the decoder return   *)
(* INPUT_NULL_PTR when the input pointer is null, and OUTPUT_NULL_PTR when *)
(* the input pointer is not null and the output pointer is; no octet is    *)
(* read or written in either case.                                         *)
(***************************************************************************)
Probed == probe.fn # NotProbed.fn

C13_NullPointers ==
  (Probed /\ Len(src) > 0)
    => /\ probe.in_null => probe.effect.status = INPUT_NULL_PTR
       /\ (~probe.in_null /\ probe.out_null) => probe.effect.status = OUTPUT_NULL_PTR
       /\ probe.effect.mem = <<>>
       /\ ~probe.effect.overrun

\* FastDecode was called with both pointers null and 15 octets of input
C13_Witness ==
  /\ pc = "probed"
  /\ probe.fn = "FastDecode"
  /\ probe.in_null /\ probe.out_null
  /\ src = WwwExampleCom
  /\ probe.effect.status = INPUT_NULL_PTR

(***************************************************************************)
(* C14: encoding an empty input returns success with zero octets written,  *)
(* and decoding an empty input returns success with zero octets of output. *)
(***************************************************************************)
SuccessWithNothing(e) == e.status = NONE /\ e.out_size = 0 /\ e.mem = <<>>

C14_EmptyInput ==
  /\ (Called(encBit) /\ src = <<>>) => SuccessWithNothing(encBit)
  /\ (Called(encFlat) /\ src = <<>>) => SuccessWithNothing(encFlat)
  /\ (Called(decNib) /\ wire = <<>>) => SuccessWithNothing(decNib)
  /\ (Probed /\ src = <<>>) => SuccessWithNothing(probe.effect)
  /\ (DecodedByBoth /\ wire = <<>>)
       => (decByte.ok /\ decByte.value = 0 /\ decByte.out.data = <<>>)

\* FastEncode was called with size 0, a null input pointer and out_size = 7
C14_Witness ==
  /\ pc = "probed"
  /\ src = <<>>
  /\ probe.fn = "FastEncode"
  /\ probe.in_null
  /\ probe.before = 7
  /\ probe.effect.out_size = 0

(***************************************************************************)
(* C15: encoding never fails on the content of the input: for every octet  *)
(* sequence, with non-null pointers and an output buffer large enough,     *)
(* FastEncode and FastEncodeFlatmap return success.                        *)
(***************************************************************************)
C15_EncodeNeverFailsOnContent ==
  /\ (Called(encBit) /\ ~encBit.overrun) => encBit.status = NONE
  /\ (Called(encFlat) /\ ~encFlat.overrun) => encFlat.status = NONE

\* both encoders have encoded the octets ff 80 into a buffer that holds them
C15_Witness ==
  /\ pc = "flat"
  /\ src = HighOctets
  /\ cap = max_bytes(Len(src))
  /\ encBit.status = NONE /\ encBit.out_size = 6
  /\ encFlat.status = NONE /\ encFlat.out_size = 6

(***************************************************************************)
(* C16: for every input of n octets the number of octets FastEncode and    *)
(* FastEncodeFlatmap write is at most the ceiling of (30 n + 7) / 8.       *)
(***************************************************************************)
CeilingOver8(x) == (x + 7) \div 8

C16_EncodeAtMost ==
  /\ Called(encBit) => Len(encBit.mem) <= CeilingOver8(30 * Len(src) + 7)
  /\ Called(encFlat) => Len(encFlat.mem) <= CeilingOver8(30 * Len(src) + 7)

\* four codes of 30 bits: FastEncode writes 16 octets, the bound for n = 4
C16_Witness ==
  /\ src = FourLineFeeds
  /\ Called(encBit) /\ Len(encBit.mem) = 16
  /\ Called(encFlat) /\ Len(encFlat.mem) = 15

(***************************************************************************)
(* C17: for every input of n octets, n = 0 included, the number of octets  *)
(* the encoders write is at least the ceiling of (5 n + 7) / 8.            *)
(***************************************************************************)
C17_EncodeAtLeast ==
  /\ Called(encBit) => Len(encBit.mem) >= CeilingOver8(5 * Len(src) + 7)
  /\ Called(encFlat) => Len(encFlat.mem) >= CeilingOver8(5 * Len(src) + 7)

\* C17 as amended: the number of octets written is at least the ceiling of
\* 5 n / 8, n = 0 included.
C17_EncodeAtLeastCodeBits ==
  /\ Called(encBit) => Len(encBit.mem) >= CeilingOver8(5 * Len(src))
  /\ Called(encFlat) => Len(encFlat.mem) >= CeilingOver8(5 * Len(src))

\* three codes of 5 bits are written in 2 octets, the ceiling of 15 / 8
C17_Witness ==
  /\ src = <<48, 48, 48>>
  /\ Called(encBit) /\ Len(encBit.mem) = 2
  /\ Called(encFlat) /\ Len(encFlat.mem) = 2

(***************************************************************************)
(* C18: for every input of k octets FastDecode and HuffmanCodec::Decode    *)
(* write at most floor(8 k / 5) octets of output, on success and on every  *)
(* path that ends in an error, so that a buffer of make_decode_buffer(k)   *)
(* is never overrun.                                                       *)
(***************************************************************************)
C18_DecodeAtMost ==
  /\ Called(decNib)
       => /\ Len(decNib.mem) <= (8 * Len(wire)) \div 5
          /\ dcap = make_decode_buffer(Len(wire)) => ~decNib.overrun
  /\ DecodedByBoth => decByte.out.size <= (8 * Len(wire)) \div 5

\* the call run on its own: same function, same input, same capacity
RunAlone(fn, input) ==
  CASE fn = "FastEncode" ->
         FastEncode(InPtr(input), Len(input), OutPtr(CallCapacity(fn, Len(input))), 0)
    [] fn = "FastEncodeFlatmap" ->
         FastEncodeFlatmap(InPtr(input), Len(input), OutPtr(CallCapacity(fn, Len(input))), 0)
    [] fn = "FastDecode" ->
         FastDecode(InPtr(input), Len(input), OutPtr(CallCapacity(fn, Len(input))), 0)
    [] fn = "Decode" -> Decode(input, EmptyRawBuffer)

Returned(p) == calls[p].pc = "returned"

\* C19: encode and decode calls running concurrently, each on its own input
\* and output, write no state another call reads (the error hook stays as it
\* was registered), and every call returns the result it returns when it is
\* run alone
C19_CallsDoNotInterfere ==
  [][ /\ g_error_cb' = g_error_cb
      /\ \A p \in Callers :
           Returned(p)' => calls'[p].result = RunAlone(calls'[p].fn, calls'[p].input) ]_vars

\* both calls decoded at once, one of them through the error path that reads
\* the hook, and both have returned
C19_Witness ==
  /\ \A p \in Callers : Returned(p)
  /\ calls[1].fn = "Decode" /\ ~calls[1].result.ok /\ calls[1].hooked
  /\ calls[2].fn = "FastDecode" /\ calls[2].result.status = NONE
  /\ calls[2].input # calls[1].input

\* RFC 7541 section 5.1: the integer n in a prefix of 7 bits, under the H bit
RECURSIVE VarInt(_)
VarInt(n) == IF n < 128 THEN <<n>> ELSE <<128 + (n % 128)>> \o VarInt(n \div 128)

LengthPrefix(n) == IF n < 127 THEN <<128 + n>> ELSE <<255>> \o VarInt(n - 127)

\* RFC 7541 section 5.2: the string literal of S, Huffman-coded
StringLiteral(S) == LengthPrefix(Len(Rfc7541Encoding(S))) \o Rfc7541Encoding(S)

\* C20: HuffmanCodec::Encode leaves the bytes already in out in place,
\* appends the HPACK string literal of the input (length prefix, then the
\* Huffman-coded data) and returns the number of bytes it appended
C20_EncodeAppendsStringLiteral ==
  encStr.called
    => /\ encStr.ok
       /\ encStr.out.data = encStr.before.data \o StringLiteral(src)
       /\ encStr.out.size = Len(encStr.out.data)
       /\ encStr.value = Len(StringLiteral(src))

(***************************************************************************)
(* Properties of the generated tables.                                     *)
(***************************************************************************)
ByteRowEmitted == gen.table = "kByteDecodeTable"

\* position in kByteDecodeTable of the entry the generator wrote for byte of
\* the state gen.of
EmittedAt(byte) == gen.emitted - 256 + byte

\* C21: for every state and input byte, the flat index the full-byte decoder
\* reads is the position at which the generator wrote the entry of that
\* (state, byte) pair, so the decoder reads the entry computed for the pair
C21_DecoderReadsGeneratedEntry ==
  ByteRowEmitted
    => \A byte \in 0..255 :
         /\ DecodeIndex(gen.of, byte) = EmittedAt(byte)
         /\ kByteDecodeTable(DecodeIndex(gen.of, byte)) = gen.row[byte + 1]

\* the walk of the width bits of unit from state st passes through the EOS leaf
ReachesEos(st, unit, width) ==
  \E w \in { WalkBits(nodes[st + 1], unit, width - 1, <<>>) } : InSeq(EOS, w.emits)

IsLeafState(st) == trie[nodes[st + 1]].symbol >= 0

\* C22: in the full-byte table, the nibble table and the bit-step table, a
\* transition whose bits reach the EOS leaf is an error entry, so that no
\* entry emits a symbol on account of EOS
C22_EosTransitionsAreErrors ==
  /\ ByteRowEmitted
       => /\ \A byte \in 0..255 :
               ReachesEos(gen.of, byte, 8) => gen.row[byte + 1].emit_count = 255
          /\ \A nib \in 0..15 :
               ReachesEos(gen.of, nib, 4) => kNibbleDecodeTable(gen.of * 16 + nib).hi = 1
  /\ gen.table = "kBitTable"
       => \A bit \in 0..1 :
            ReachesEos(gen.of, bit, 1) => gen.row[bit + 1].emit_count = 255

\* from node n, at most k one bits lead to the EOS leaf through internal
\* nodes only: no symbol is emitted and no child is missing on the way
RECURSIVE OnesToEos(_, _)
OnesToEos(n, k) ==
  IF k = 0 THEN FALSE
  ELSE LET c == trie[n].child[2]
       IN  IF c = 0 THEN FALSE
           ELSE IF trie[c].symbol >= 0 THEN trie[c].symbol = EOS
           ELSE OnesToEos(c, k - 1)

\* C23: the generated accepting set holds state s exactly when s is the root
\* or at most 7 one bits from s reach the EOS leaf before any other symbol
\* is emitted and without an invalid transition
C23_AcceptingSet ==
  gen.table = "kAccepting"
    => /\ gen.row[1] <=> (gen.of = 0 \/ OnesToEos(nodes[gen.of + 1], 7))
       /\ checkAccepting(gen.of) <=> (gen.of = 0 \/ OnesToEos(nodes[gen.of + 1], 7))

\* the octets FastEncodeFlatmap writes for S, given room for all of them
Encoded(S) == FastEncodeFlatmap(InPtr(S), Len(S), OutPtr(max_bytes(Len(S))), 0).mem

\* C24: the decoders accept canonical encodings only: whenever FastDecode or
\* HuffmanCodec::Decode succeeds on E with output S, encoding S gives back E
\* octet for octet
C24_AcceptsOnlyCanonical ==
  DecodedByBoth
    => /\ decNib.status = NONE => Encoded(Written(decNib)) = wire
       /\ decByte.ok => Encoded(decByte.out.data) = wire

(***************************************************************************)
(* Properties of the encoders' loop.                                       *)
(***************************************************************************)
InEncoderLoop(p) == calls[p].fn \in Encoders /\ calls[p].pc = "loop"

LoopFinished(p) == InEncoderLoop(p) /\ calls[p].pos = Len(calls[p].input)

BitsOf(mem) == [k \in 1..(8 * Len(mem)) |-> OctetBit(mem, k - 1)]

\* the low n bits of the accumulator, most significant first
LowBits(acc, n) == [k \in 1..n |-> acc[n - k]]

\* C26: in the per-symbol loop of the encoders the count of pending bits is
\* at most 31 before a symbol is shifted in and at most 61 after it, and the
\* octets flushed so far followed by the low `bits` bits of the accumulator
\* are the bits of the codes of the symbols consumed: no bit is lost
C26_AccumulatorHoldsPendingBits ==
  \A p \in Callers :
    InEncoderLoop(p)
      => /\ calls[p].bits <= 31
         /\ calls[p].pos < Len(calls[p].input)
              => calls[p].bits + LEN[calls[p].input[calls[p].pos + 1] + 1] <= 61
         /\ BitsOf(calls[p].mem) \o LowBits(calls[p].acc, calls[p].bits)
              = ConcatCodes(SubSeq(calls[p].input, 1, calls[p].pos))

\* four line feeds, three of them consumed: 90 bits, 64 flushed, 26 pending,
\* and the next code of 30 bits brings the count to 56
C26_Witness ==
  \E p \in Callers :
    /\ InEncoderLoop(p)
    /\ calls[p].input = FourLineFeeds
    /\ calls[p].pos = 3
    /\ Len(calls[p].mem) = 8
    /\ calls[p].bits = 26

\* C27: every entry of the full-byte table that is not an error entry has an
\* emit_count of 0, 1 or 2 and a next_state below the number of states
C27_ByteEntriesWellFormed ==
  ByteRowEmitted
    => \A byte \in 0..255 :
         gen.row[byte + 1].emit_count # 255
           => /\ gen.row[byte + 1].emit_count \in {0, 1, 2}
              /\ gen.row[byte + 1].next_state \in 0..(NStates - 1)

\* a row with an entry that completes two symbols within one byte
C27_Witness ==
  /\ ByteRowEmitted
  /\ \E byte \in 0..255 : gen.row[byte + 1].emit_count = 2

\* the bit-step table applied to the bits i..0 of byte, from state st
RECURSIVE BitSteps(_, _, _, _)
BitSteps(st, byte, i, count) ==
  IF i < 0 THEN [error |-> FALSE, next_state |-> st, emit_count |-> count]
  ELSE \* one entry of kBitTable
       LET e == kBitTable(st, BitAt(byte, i))
       IN  IF e.emit_count = 255 THEN [error |-> TRUE, next_state |-> 0, emit_count |-> 0]
           ELSE BitSteps(e.next_state, byte, i - 1, count + e.emit_count)

\* the nibble entry of the high nibble, then the one of the low nibble
NibbleSteps(st, byte) ==
  LET hn == NibbleStep(st, byte \div 16, <<>>)
  IN  IF hn.error THEN hn ELSE NibbleStep(hn.state, byte % 16, hn.mem)

EmittedBy(e) == SubSeq(e.symbols, 1, e.emit_count)

\* C28: for every state the decoder can occupy and every byte, the entry of
\* the full-byte table (next state, emitted symbols in order) is what the
\* bit-step table gives on the 8 bits of the byte and what the nibble table
\* gives on the high and then the low nibble; an emission resets to state 0
C28_ByteEntryIsBitAndNibbleSteps ==
  (ByteRowEmitted /\ ~IsLeafState(gen.of))
    => \A byte \in 0..255 :
         \E e \in { gen.row[byte + 1] }, b \in { BitSteps(gen.of, byte, 7, 0) },
            n \in { NibbleSteps(gen.of, byte) } :
           /\ (e.emit_count = 255) = b.error
           /\ ~b.error => (e.next_state = b.next_state /\ e.emit_count = b.emit_count)
           /\ (e.emit_count = 255) = n.error
           /\ ~n.error => (e.next_state = n.state /\ EmittedBy(e) = n.mem)
           /\ \A bit \in 0..1 :
                kBitTable(gen.of, bit).emit_count = 1 => kBitTable(gen.of, bit).next_state = 0

\* C29: a state the decoder can occupy (the root or an internal node) has a
\* child for both bits, so no byte, nibble or bit takes a transition with no
\* child from it; entries for a missing child are in the rows of leaf states
\* only, and no entry leads the decoder to a leaf state
C29_OccupiedStatesAreComplete ==
  /\ ByteRowEmitted
       => /\ ~IsLeafState(gen.of)
               => /\ \A bit \in 1..2 : trie[nodes[gen.of + 1]].child[bit] # 0
                  /\ \A byte \in 0..255 : ~WalkBits(nodes[gen.of + 1], byte, 7, <<>>).error
                  /\ \A nib \in 0..15 : ~WalkBits(nodes[gen.of + 1], nib, 3, <<>>).error
          /\ \A byte \in 0..255 :
               IF gen.row[byte + 1].emit_count = 255
               THEN IsLeafState(gen.of)
               ELSE ~IsLeafState(gen.row[byte + 1].next_state)
  /\ gen.table = "kBitTable"
       => \A bit \in 0..1 :
            IF gen.row[bit + 1].emit_count = 255
            THEN IsLeafState(gen.of)
            ELSE ~IsLeafState(gen.row[bit + 1].next_state)

\* the row of an internal state deep in the trie (29 one bits) is emitted,
\* and so is, in another state of the generator, the row of a leaf
C29_Witness ==
  /\ ByteRowEmitted
  /\ gen.of = 508
  /\ ~IsLeafState(gen.of)
  /\ \A byte \in 0..255 : gen.row[byte + 1].emit_count # 255

(***************************************************************************)
(* Properties of the codebook and of the trie.                             *)
(***************************************************************************)
IsPrefixOf(a, b) == Len(a) <= Len(b) /\ SubSeq(b, 1, Len(a)) = a

\* the node the bits i..0 of code lead to from node n of arena, 0 if none
RECURSIVE NodeOf(_, _, _, _)
NodeOf(arena, n, code, i) ==
  IF i < 0 \/ n = 0 THEN n
  ELSE NodeOf(arena, arena[n].child[BitAt(code, i) + 1], code, i - 1)

IsLeaf(arena, n) == arena[n].child = <<0, 0>>

\* C30: the codes of the codebook form a prefix code, none is a prefix of
\* another; so, as the codes are inserted into the trie, every symbol
\* inserted so far sits on a leaf of its own and no node with a child
\* carries a symbol
C30_PrefixCode ==
  gen.table = "trie"
    => /\ \A s \in 0..(gen.of - 1) :
            /\ ~IsPrefixOf(CodeBits(s), CodeBits(gen.of))
            /\ ~IsPrefixOf(CodeBits(gen.of), CodeBits(s))
       /\ \A s \in 0..gen.of :
            \E n \in { NodeOf(gen.arena, root, CODE[s + 1], LEN[s + 1] - 1) } :
              /\ n # 0
              /\ gen.arena[n].symbol = s
              /\ IsLeaf(gen.arena, n)
       /\ \A n \in 1..Len(gen.arena) : ~IsLeaf(gen.arena, n) => gen.arena[n].symbol = -1
       /\ gen.of = NSYM - 1 => gen.arena = trie

\* all 257 codes are inserted: 513 nodes, EOS on the last of them
C30_Witness ==
  /\ gen.table = "trie"
  /\ gen.of = EOS
  /\ Len(gen.arena) = 513
  /\ gen.arena[513].symbol = EOS

\* the entry the encode-table generator has just written, for symbol gen.of
EncodeEntryEmitted == gen.table = "kEncodeTable"

\* bit k, counted from the most significant bit of bytes[0], of a 5-byte array
ArrayBit(bytes, k) == BitAt(bytes[k \div 8], 7 - (k % 8))

\* C31: for every symbol s the generated EncodeEntry has bit_length =
\* length(s) and byte_count = ceil(bit_length / 8); the first bit_length bits
\* of the byte array, read MSB-first, are code(s), and every other bit of the
\* five bytes is zero
C31_EncodeEntryHoldsCode ==
  EncodeEntryEmitted
    => LET e == gen.row[1]
           s == gen.of
       IN  /\ e.bit_length = LEN[s + 1]
           /\ 8 * e.byte_count >= e.bit_length
           /\ 8 * (e.byte_count - 1) < e.bit_length
           /\ \A k \in 0..39 :
                ArrayBit(e.bytes, k)
                  = IF k < e.bit_length THEN BitAt(CODE[s + 1], e.bit_length - 1 - k) ELSE 0

\* the entry of EOS: 30 bits in four bytes, the last two bits of bytes[3] zero
C31_Witness ==
  /\ EncodeEntryEmitted
  /\ gen.of = EOS
  /\ gen.row[1].byte_count = 4
  /\ gen.row[1].bytes[3] = 252

\* pad_bits of a state, from its kStateDepth entry
PadBitsOf(s) == (8 - (kStateDepth(s) % 8)) % 8

\* C32: whenever the full-byte decoder leaves its main loop in a state s other
\* than 0, kStateDepth[s] is the number of bits consumed since the last
\* completed symbol and pad_bits = (8 - (kStateDepth[s] & 7)) & 7 is in 1..7
C32_PadBitsInRange ==
  DecodedByBoth
    => \A l \in { DecodeLoop(wire, 0, 0, EmptyRawBuffer, 0) } :
         (l.status = "loop_end" /\ l.state # 0)
           => /\ kStateDepth(l.state) = Len(Parse(wire).tail)
              /\ PadBitsOf(l.state) \in 1..7

NibbleRowEmitted == gen.table = "kNibbleDecodeTable"

\* the state the nibble generator stores for nibble nib of the state gen.of:
\* the breadth-first index of the node reached after the four bits
StoredNextState(nib) == index[WalkBits(nodes[gen.of + 1], nib, 3, <<>>).n]

\* the decoder's unpacking of the next-state field, (packed >> 22) & 0x1FF
UnpackedNextState(packed) == (packed.lo \div Pow2(22)) % 512

\* C33: every state index stored as next_state in a nibble entry that is not an
\* error entry is below 512, so the 9-bit field holds it and the decoder's
\* unpacking returns the state the generator stored
C33_NextStateFitsNineBits ==
  NibbleRowEmitted
    => \A nib \in 0..15 :
         gen.row[nib + 1].hi = 0
           => /\ StoredNextState(nib) < 512
              /\ UnpackedNextState(gen.row[nib + 1]) = StoredNextState(nib)

\* a row with a next state that needs the ninth bit of the field
C33_Witness ==
  /\ NibbleRowEmitted
  /\ \E nib \in 0..15 :
       /\ gen.row[nib + 1].hi = 0
       /\ StoredNextState(nib) >= 256
       /\ UnpackedNextState(gen.row[nib + 1]) >= 256

\* the low bit_len bits of every symbol written, most significant bit first,
\* in the order of the calls
RECURSIVE WrittenBits(_)
WrittenBits(log) ==
  IF log = <<>> THEN <<>>
  ELSE [k \in 1..Head(log).bit_len |-> BitAt(Head(log).symbol, Head(log).bit_len - k)]
         \o WrittenBits(Tail(log))

IsCodeOf(w, c) == w.symbol = CODE[c + 1] /\ w.bit_len = LEN[c + 1]

Flushed == pc = "bitpacker" /\ packer.phase = "flushed"

\* C34: after WriteSymbol calls, PadWithSymbol(EOS code, 30) and Flush, Data()
\* is the written bits packed MSB-first in call order, followed by 1 bits up
\* to the next byte boundary, and nothing else; when the calls wrote the codes
\* of a string these are the bytes HuffmanCodec::Encode produces for it
C34_BitPackerPacksMsbFirst ==
  Flushed
    => /\ \E B \in { WrittenBits(packer.log) } :
            packer.buffer_ = PackMsbFirst(B \o PadOnes(B))
       /\ (\A k \in 1..Len(packer.log) : \E c \in 0..255 : IsCodeOf(packer.log[k], c))
            => \E S \in { [k \in 1..Len(packer.log) |->
                             CHOOSE c \in 0..255 : IsCodeOf(packer.log[k], c)] } :
                 packer.buffer_ = Encode(S, EmptyRawBuffer).out.data

\* the codes of LF (30 bits) and '0' (5 bits): 35 bits, five bytes, the last
\* one ending in five 1 bits
C34_Witness ==
  /\ Flushed
  /\ Len(packer.log) = 2
  /\ IsCodeOf(packer.log[1], 10)
  /\ IsCodeOf(packer.log[2], 48)
  /\ Len(packer.buffer_) = 5
  /\ packer.buffer_[5] % 32 = 31

IntegerDecoded == pc = "integer" /\ ints.phase = "decoded"

\* C35: for every 32-bit value v and prefix size N in {5, 6, 7, 8},
\* DecodeInteger on the bytes ncodeInteger wrote for (v, N) returns v and
\* reports as consumed exactly the number of bytes written, which is at most
\* ENCODE_MAX_BYTES = 6; 1337 with N = 5 is written as 1F 9A 0A
C35_IntegerRoundTrip ==
  IntegerDecoded
    => /\ ints.dec.undefined = "no"
       /\ ints.dec.status = NONE
       /\ ints.dec.out_val = ints.value
       /\ ints.dec.out_size = ints.enc.out_size
       /\ ints.enc.out_size = Len(ints.enc.mem)
       /\ ints.enc.out_size <= ENCODE_MAX_BYTES
       /\ (ints.value = [hi |-> 0, lo |-> 1337] /\ ints.N = 5 /\ ints.prefix_bits = 0)
            => ints.enc.mem = <<31, 154, 10>>

\* 2^32 - 1 with a 5-bit prefix: the prefix byte and five continuation bytes
C35_Witness ==
  /\ IntegerDecoded
  /\ ints.value = [hi |-> 65535, lo |-> 65535]
  /\ ints.N = 5
  /\ ints.enc.out_size = 6
  /\ ints.dec.out_size = 6

\* C36: after any sequence of Insert, SetMaxBytes and Clear calls, whenever a
\* call has returned, BytesUsed() is at most the current maximum byte capacity
\* (the constructor's max_bytes or the latest SetMaxBytes value)
C36_BytesUsedWithinMax ==
  Dyn => BytesUsed(dyn) <= dyn.max_bytes_

\* C37: once an entry has been evicted from the DynamicTable (by the eviction
\* inside Insert or SetMaxBytes), no later Find or FindByIndex call returns it
C37_EvictedEntryNotFound ==
  (Dyn /\ dyn.last.op \in {"Find", "FindByIndex"} /\ dyn.last.found # 0)
    => dyn.last.found \notin dyn.evicted

\* the entries inserted and not yet evicted: the slots head_ .. tail_ - 1 of queue_
LiveSlots == (dyn.head_ + 1)..dyn.tail_

\* C38: at every moment the entries held by the DynamicTable (inserted and not
\* yet evicted) carry pairwise distinct Entry::index values
C38_LiveIndicesDistinct ==
  Dyn => \A i, j \in LiveSlots :
           i # j => dyn.heap[dyn.queue_[i]].index # dyn.heap[dyn.queue_[j]].index

====
